---- MODULE Spec2Model ----
(***************************************************************************)
(* Recipe Explorer: the external-source adapter (TheMealDB), its Redis     *)
(* cache facade, the import validator and the recipe store, modelled as    *)
(* state machines.  Text is a sequence of one-character strings, so that   *)
(* strip(), lower() and split() are computed and not assumed.  Python and  *)
(* JSON values are tagged records [t |-> type, v |-> payload].             *)
(***************************************************************************)
EXTENDS Integers, Sequences, FiniteSets, TLC

(* ------------------------------ bounds --------------------------------- *)
\* longest query / id string handed to the adapter
MaxLen == 2
\* longest "meals" array in an HTTP response body
MaxMeals == 1
\* adapter calls per behaviour
MaxCalls == 2

(* ------------------------------ text ----------------------------------- *)
\* str.isspace() for the characters the model uses
\* F applied to the value: names a value that is used several times
With(value, F(_)) == F(value)

IsSpace(c) == c \in {" ", "\t", "\n", "\r"}

IsDigit(c) == c \in {"0", "1", "2", "3", "4", "5", "6", "7", "8", "9"}

RECURSIVE LStrip(_)
LStrip(s) == IF s # <<>> /\ IsSpace(Head(s)) THEN LStrip(Tail(s)) ELSE s

RECURSIVE RStrip(_)
RStrip(s) ==
  IF s # <<>> /\ IsSpace(s[Len(s)]) THEN RStrip(SubSeq(s, 1, Len(s) - 1)) ELSE s

\* str.strip()
Strip(s) == RStrip(LStrip(s))

LowerChar(c) ==
  CASE c = "A" -> "a" [] c = "B" -> "b" [] c = "F" -> "f" [] c = "S" -> "s"
    [] c = "T" -> "t" [] OTHER -> c

\* str.lower()
Lower(s) == [i \in 1..Len(s) |-> LowerChar(s[i])]

\* every string of at most n characters over the alphabet cs
RECURSIVE StringsUpTo(_, _)
StringsUpTo(cs, n) ==
  IF n = 0 THEN {<<>>}
  ELSE LET shorter == StringsUpTo(cs, n - 1)
       IN  shorter \cup {Append(s, c) : s \in shorter, c \in cs}

(* -------------------------- Python / JSON values ----------------------- *)
PyNone == [t |-> "null", v |-> ""]
Str(s) == [t |-> "str", v |-> s]
Num(n) == [t |-> "num", v |-> n]
List(xs) == [t |-> "list", v |-> xs]
Dict(f) == [t |-> "dict", v |-> f]

\* bool(x) of a Python value
Truthy(x) ==
  CASE x.t = "null" -> FALSE
    [] x.t = "str"  -> x.v # <<>>
    [] x.t = "num"  -> x.v # 0
    [] x.t = "list" -> x.v # <<>>
    [] x.t = "dict" -> DOMAIN x.v # {}
    [] OTHER        -> TRUE

\* dict.get(key, default)
GetOr(d, key, default) == IF key \in DOMAIN d THEN d[key] ELSE default

\* dict.get(key)
Get(d, key) == GetOr(d, key, PyNone)

DigitText == <<"0", "1", "2", "3", "4", "5", "6", "7", "8", "9">>

\* str(x) for the values a raw meal field can hold (numbers are single digits)
PyStr(x) ==
  CASE x.t = "str"  -> x.v
    [] x.t = "null" -> <<"N", "o", "n", "e">>
    [] x.t = "num"  -> <<DigitText[x.v + 1]>>
    [] OTHER        -> <<"?">>

(* ---------------- transform: raw meal -> recipe dict ------------------- *)
T_Untitled == <<"U", "n", "t", "i", "t", "l", "e", "d">>
T_NoInstructions ==
  <<"N", "o", " ", "i", "n", "s", "t", "r", "u", "c", "t", "i", "o", "n", "s",
    " ", "p", "r", "o", "v", "i", "d", "e", "d", ".">>
T_ExternalPrefix == <<"e", "x", "t", "e", "r", "n", "a", "l", "-">>
T_Ellipsis == <<".", ".", ".">>

IngredientKeys ==
  <<"strIngredient1", "strIngredient2", "strIngredient3", "strIngredient4",
    "strIngredient5", "strIngredient6", "strIngredient7", "strIngredient8",
    "strIngredient9", "strIngredient10", "strIngredient11", "strIngredient12",
    "strIngredient13", "strIngredient14", "strIngredient15", "strIngredient16",
    "strIngredient17", "strIngredient18", "strIngredient19", "strIngredient20">>

MeasureKeys ==
  <<"strMeasure1", "strMeasure2", "strMeasure3", "strMeasure4", "strMeasure5",
    "strMeasure6", "strMeasure7", "strMeasure8", "strMeasure9", "strMeasure10",
    "strMeasure11", "strMeasure12", "strMeasure13", "strMeasure14",
    "strMeasure15", "strMeasure16", "strMeasure17", "strMeasure18",
    "strMeasure19", "strMeasure20">>

\* the loop body appending the ingredient name as it is
IngredientEntry_Untrimmed(meal, i) ==
  LET ing == Get(meal, IngredientKeys[i])
      measure == Get(meal, MeasureKeys[i])
      measure_str == IF Truthy(measure) THEN Strip(PyStr(measure)) ELSE <<>>
  IN  IF Truthy(ing) /\ Strip(PyStr(ing)) # <<>>
      THEN IF measure_str # <<>>
           THEN <<Str(Strip(measure_str \o <<" ">> \o PyStr(ing)))>>
           ELSE <<Str(PyStr(ing))>>
      ELSE <<>>

\* one pass of the loop body of _build_ingredients: the entries pair i adds
IngredientEntry(meal, i) ==
  LET ing == Get(meal, IngredientKeys[i])
      measure == Get(meal, MeasureKeys[i])
      measure_str == IF Truthy(measure) THEN Strip(PyStr(measure)) ELSE <<>>
  IN  IF Truthy(ing) /\ Strip(PyStr(ing)) # <<>>
      THEN IF measure_str # <<>>
           THEN <<Str(Strip(measure_str \o <<" ">> \o PyStr(ing)))>>
           ELSE <<Str(Strip(PyStr(ing)))>>
      ELSE <<>>

RECURSIVE IngredientsFrom(_, _)
IngredientsFrom(meal, i) ==
  IF i > Len(IngredientKeys) THEN <<>>
  ELSE IngredientEntry(meal, i) \o IngredientsFrom(meal, i + 1)

\* _build_ingredients
BuildIngredients(meal) == IngredientsFrom(meal, 1)

\* raw.replace("\r\n", "\n")
RECURSIVE ReplaceCRLF(_)
ReplaceCRLF(s) ==
  IF s = <<>> THEN <<>>
  ELSE IF Len(s) >= 2 /\ s[1] = "\r" /\ s[2] = "\n"
       THEN <<"\n">> \o ReplaceCRLF(SubSeq(s, 3, Len(s)))
       ELSE <<Head(s)>> \o ReplaceCRLF(Tail(s))

\* str.split(sep) for a one-character separator: the pieces, in order
RECURSIVE SplitOn(_, _, _)
SplitOn(s, sep, cur) ==
  IF s = <<>> THEN <<cur>>
  ELSE IF Head(s) = sep THEN <<cur>> \o SplitOn(Tail(s), sep, <<>>)
       ELSE SplitOn(Tail(s), sep, Append(cur, Head(s)))

RECURSIVE LeadingDigits(_)
LeadingDigits(s) ==
  IF s # <<>> /\ IsDigit(Head(s)) THEN 1 + LeadingDigits(Tail(s)) ELSE 0

\* re.sub(r"^\d+[\.\)]\s*", "", part)
StripMarker(part) ==
  LET n == LeadingDigits(part)
  IN  IF n >= 1 /\ Len(part) > n /\ part[n + 1] \in {".", ")"}
      THEN LStrip(SubSeq(part, n + 2, Len(part)))
      ELSE part

\* the loop of _build_instructions over the split parts
RECURSIVE StepsOf(_)
StepsOf(parts) ==
  IF parts = <<>> THEN <<>>
  ELSE LET part == Strip(Head(parts))
           cleaned == StripMarker(part)
       IN  (IF part # <<>> /\ cleaned # <<>> THEN <<Str(cleaned)>> ELSE <<>>)
           \o StepsOf(Tail(parts))

\* raw = meal.get("strInstructions") or ""
RawInstructions(meal) ==
  LET got == Get(meal, "strInstructions")
  IN  IF Truthy(got) THEN got ELSE Str(<<>>)

\* _build_instructions returning the steps, be there any or none
BuildInstructions_NoFallback(meal) ==
  With(RawInstructions(meal), LAMBDA raw :
    IF ~Truthy(raw) THEN <<Str(T_NoInstructions)>>
    ELSE StepsOf(SplitOn(ReplaceCRLF(raw.v), "\n", <<>>)))

\* _build_instructions, for a raw value that is text
BuildInstructions(meal) ==
  With(RawInstructions(meal), LAMBDA raw :
    IF ~Truthy(raw) THEN <<Str(T_NoInstructions)>>
    ELSE With(StepsOf(SplitOn(ReplaceCRLF(raw.v), "\n", <<>>)), LAMBDA steps :
           IF steps # <<>> THEN steps ELSE <<raw>>))

\* the comma-separated pieces of strTags, trimmed, empties dropped
RECURSIVE TrimmedNonEmpty(_)
TrimmedNonEmpty(parts) ==
  IF parts = <<>> THEN <<>>
  ELSE (IF Strip(Head(parts)) # <<>> THEN <<Str(Strip(Head(parts)))>> ELSE <<>>)
       \o TrimmedNonEmpty(Tail(parts))

\* _build_tags
BuildTags(meal) ==
  With(Get(meal, "strTags"), LAMBDA raw_tags :
  With(Get(meal, "strCategory"), LAMBDA category :
  With(IF Truthy(raw_tags) /\ Strip(PyStr(raw_tags)) # <<>>
       THEN TrimmedNonEmpty(SplitOn(PyStr(raw_tags), ",", <<>>))
       ELSE <<>>, LAMBDA tags :
    IF Truthy(category) /\ Strip(PyStr(category)) # <<>>
    THEN Append(tags, Str(Strip(PyStr(category))))
    ELSE tags)))

\* transform_meal_to_recipe raises (AttributeError on raw.replace) exactly when
\* strInstructions is truthy and not text
TransformRaises(meal) ==
  Truthy(Get(meal, "strInstructions")) /\ Get(meal, "strInstructions").t # "str"

DescriptionLimit == 100

\* transform_meal_to_recipe, when it does not raise
transform_meal_to_recipe(meal) ==
  With(PyStr(GetOr(meal, "idMeal", Str(<<>>))), LAMBDA meal_id :
  With(IF Truthy(Get(meal, "strMeal")) THEN Get(meal, "strMeal")
       ELSE Str(T_Untitled), LAMBDA title :
  With(BuildInstructions(meal), LAMBDA instructions_list :
  With(IF instructions_list # <<>> THEN instructions_list[1] ELSE Str(<<>>),
       LAMBDA first :
  With(IF Len(instructions_list) > 1 /\ Len(first.v) > DescriptionLimit
       THEN Str(first.v \o T_Ellipsis) ELSE first, LAMBDA description :
    Dict([id |-> Str(T_ExternalPrefix \o meal_id),
          title |-> title,
          description |-> IF Truthy(description) THEN description ELSE title,
          ingredients |-> List(BuildIngredients(meal)),
          instructions |-> List(instructions_list),
          tags |-> List(BuildTags(meal)),
          cuisine |-> IF Truthy(Get(meal, "strArea")) THEN Get(meal, "strArea")
                      ELSE PyNone,
          source |-> Str(<<"e", "x", "t", "e", "r", "n", "a", "l">>),
          image_url |-> Get(meal, "strMealThumb"),
          external_id |-> Str(meal_id)]))))))

(* ------------------------------ state ---------------------------------- *)
VARIABLES
  cache_class,  \* the CacheBackend injected into the adapter
  redis_url,    \* RedisCacheBackend._redis_url
  client,       \* RedisCacheBackend._client: "None" or the cached handle
  up,           \* environment: the Redis server answers at this moment
  redis,        \* environment: the Redis key space, key -> stored string
  calls,        \* operations performed so far (bounded by MaxCalls)
  last,         \* the last operation: its arguments and what it returned
  firstMiss,    \* history: per cache key, the miss that should have filled it
  written,      \* history: per cache key, the last direct set_meal that took effect
  recipes,      \* RecipeStorage: the rows of table recipes, id -> row
  uuids,        \* uuid4() values drawn so far
  batch,        \* the batch handed to the import validator
  response,     \* the answer of the last storage / import request
  created,      \* history of the ids POST /api/recipes returned: those
                \* neither deleted nor followed by an accepted import (live), and
                \* those a delete has removed, until an import stores the
                \* id again (gone)
  mapping,      \* the caller's mapping handed to the normalizer
  normalized,   \* the normalizer's calls so far: what each returned or raised
  threads,      \* concurrent calls: each one's position and locals
  api,          \* what the concurrent calls run against: the external API's
                \* response and the cache as it was before them, or the
                \* module globals and the objects made so far
  fetched,      \* the raw meal handed to the transform
  adapted       \* what the transform made of it: <<>> before the call

storeVars == <<recipes, uuids, batch, response, created>>

normVars == <<mapping, normalized>>

raceVars == <<threads, api>>

transformVars == <<fetched, adapted>>

cacheVars == <<cache_class, redis_url, client, up, redis, calls, last,
               firstMiss, written>>

(* --------------------------- cache facade ------------------------------ *)
CACHE_TTL_SECONDS == 86400
CACHE_KEY_PREFIX == <<"mealdb:">>
CACHE_KEY_SEARCH == CACHE_KEY_PREFIX \o <<"search:">>
CACHE_KEY_MEAL == CACHE_KEY_PREFIX \o <<"meal:">>

\* f"{CACHE_KEY_SEARCH}{query.strip().lower()}"
SearchKey(query) == CACHE_KEY_SEARCH \o Lower(Strip(query))

\* f"{CACHE_KEY_MEAL}{meal_id.strip()}"
MealKey(meal_id) == CACHE_KEY_MEAL \o Strip(meal_id)

\* a key Redis does not hold: r.get(key) returns None
NoEntry == [t |-> "nil", v |-> ""]
\* the string "__NONE__" that set_meal stores for "not found"
NONE_TEXT == [t |-> "text", v |-> "__NONE__"]
\* the value get_meal returns for it
CACHED_NONE == [t |-> "sentinel", v |-> "__CACHED_NONE__"]

\* json.dumps: the JSON document for a value; a tuple is written as an array
RECURSIVE JsonEncode(_)
JsonEncode(x) ==
  IF x.t \in {"list", "tuple"}
  THEN List([i \in 1..Len(x.v) |-> JsonEncode(x.v[i])])
  ELSE IF x.t = "dict"
       THEN Dict([k \in DOMAIN x.v |-> JsonEncode(x.v[k])])
       ELSE x

JsonDumps(x) == [t |-> "json", v |-> JsonEncode(x)]
\* json.loads(raw) raises unless raw is JSON text
JsonLoadsRaises(raw) == raw.t # "json"
JsonLoads(raw) == raw.v

\* RedisCacheBackend._get_client: a handle when the URL enables caching and
\* the server answers the ping, else None
GetClient(url, isUp) ==
  IF url \notin {"", "false", "none", "0"} /\ isUp THEN "Redis" ELSE "None"

\* r = self._client if self._client is not None else self._get_client()
Handle(c, url, isUp) == IF c # "None" THEN c ELSE GetClient(url, isUp)

\* is_available(): [ret, client]
is_available(class, c, url, isUp) ==
  IF class = "NoOpCacheBackend" THEN [ret |-> FALSE, client |-> c]
  ELSE LET c2 == IF c = "None" THEN GetClient(url, isUp) ELSE c
       IN  [ret |-> c2 # "None", client |-> c2]

\* get_search(query): [ret, client]
get_search(class, c, url, isUp, store, query) ==
  IF class = "NoOpCacheBackend" THEN [ret |-> PyNone, client |-> c]
  ELSE LET r == Handle(c, url, isUp)
           raw == store[SearchKey(query)]
       IN  IF r = "None" THEN [ret |-> PyNone, client |-> c]
           ELSE [client |-> r,
                 ret |-> IF ~isUp \/ raw = NoEntry \/ JsonLoadsRaises(raw)
                         THEN PyNone
                         ELSE IF JsonLoads(raw).t = "list" THEN JsonLoads(raw)
                              ELSE PyNone]

\* set_search extending the list already cached instead of overwriting it
set_search_Append(class, c, url, isUp, store, query, results) ==
  IF class = "NoOpCacheBackend" THEN [client |-> c, redis |-> store]
  ELSE LET r == Handle(c, url, isUp)
           raw == store[SearchKey(query)]
       IN  IF r = "None" THEN [client |-> c, redis |-> store]
           ELSE [client |-> r,
                 redis |-> IF isUp
                           THEN [store EXCEPT ![SearchKey(query)] =
                                   IF raw = NoEntry THEN JsonDumps(results)
                                   ELSE JsonDumps(List(JsonLoads(raw).v \o results.v))]
                           ELSE store]

\* set_search(query, results): [client, redis]
set_search(class, c, url, isUp, store, query, results) ==
  IF class = "NoOpCacheBackend" THEN [client |-> c, redis |-> store]
  ELSE LET r == Handle(c, url, isUp)
       IN  IF r = "None" THEN [client |-> c, redis |-> store]
           ELSE [client |-> r,
                 redis |-> IF isUp
                           THEN [store EXCEPT ![SearchKey(query)] = JsonDumps(results)]
                           ELSE store]

\* get_meal(meal_id): [ret, client]
\* variant without the branch for the "__NONE__" text
get_meal_NoSentinel(class, c, url, isUp, store, meal_id) ==
  IF class = "NoOpCacheBackend" THEN [ret |-> PyNone, client |-> c]
  ELSE LET r == Handle(c, url, isUp)
           raw == store[MealKey(meal_id)]
       IN  IF r = "None" THEN [ret |-> PyNone, client |-> c]
           ELSE [client |-> r,
                 ret |-> IF ~isUp \/ raw = NoEntry THEN PyNone
                         ELSE IF JsonLoadsRaises(raw) THEN PyNone
                         ELSE IF JsonLoads(raw).t = "dict" THEN JsonLoads(raw)
                              ELSE PyNone]

get_meal(class, c, url, isUp, store, meal_id) ==
  IF class = "NoOpCacheBackend" THEN [ret |-> PyNone, client |-> c]
  ELSE LET r == Handle(c, url, isUp)
           raw == store[MealKey(meal_id)]
       IN  IF r = "None" THEN [ret |-> PyNone, client |-> c]
           ELSE [client |-> r,
                 ret |-> IF ~isUp \/ raw = NoEntry THEN PyNone
                         ELSE IF raw = NONE_TEXT THEN CACHED_NONE
                         ELSE IF JsonLoadsRaises(raw) THEN PyNone
                         ELSE IF JsonLoads(raw).t = "dict" THEN JsonLoads(raw)
                              ELSE PyNone]

\* set_meal(meal_id, value): [client, redis]
\* variant that serialises None like any other value
set_meal_NoSentinel(class, c, url, isUp, store, meal_id, value) ==
  IF class = "NoOpCacheBackend" THEN [client |-> c, redis |-> store]
  ELSE LET r == Handle(c, url, isUp)
       IN  IF r = "None" THEN [client |-> c, redis |-> store]
           ELSE [client |-> r,
                 redis |-> IF isUp
                           THEN [store EXCEPT ![MealKey(meal_id)] = JsonDumps(value)]
                           ELSE store]

set_meal(class, c, url, isUp, store, meal_id, value) ==
  IF class = "NoOpCacheBackend" THEN [client |-> c, redis |-> store]
  ELSE LET r == Handle(c, url, isUp)
       IN  IF r = "None" THEN [client |-> c, redis |-> store]
           ELSE [client |-> r,
                 redis |-> IF isUp
                           THEN [store EXCEPT ![MealKey(meal_id)] =
                                   IF value = PyNone THEN NONE_TEXT
                                   ELSE JsonDumps(value)]
                           ELSE store]

(* --------------------------- HTTP responses ---------------------------- *)
\* the ways lines 148-152 / 223-227 of the adapter end: an exception of the
\* request, of raise_for_status() or of response.json(), or a parsed body
NetFailures == {"TimeoutException", "ConnectError", "HTTPStatusError", "JSONDecodeError"}

Failed(kind) == [kind |-> kind, body |-> PyNone]
Ok(body) == [kind |-> "ok", body |-> body]

\* raw meal objects of a response
GoodMeal ==
  [idMeal |-> Str(<<"7">>), strMeal |-> Str(<<"P", "i", "e">>),
   strInstructions |-> Str(<<"1", ".", " ", "M", "i", "x", "\r", "\n", "B", "a", "k", "e">>),
   strIngredient1 |-> Str(<<"e", "g", "g">>), strMeasure1 |-> Str(<<"2">>),
   strArea |-> Str(<<"U", "K">>)]
\* strInstructions is a JSON number: the transform raises on it
BadMeal == [idMeal |-> Str(<<"8">>), strInstructions |-> Num(5)]
\* the empty JSON object
EmptyMeal == [k \in {} |-> PyNone]

\* sequences of at most n elements of elems
RECURSIVE SeqsUpTo(_, _)
SeqsUpTo(elems, n) ==
  IF n = 0 THEN {<<>>}
  ELSE LET shorter == SeqsUpTo(elems, n - 1)
       IN  shorter \cup {Append(xs, e) : xs \in shorter, e \in elems}

\* parsed bodies whose root is not a JSON object
NonObjectBodies == {List(<<>>), PyNone}

\* an object body with the given "meals" value
MealsBody(meals) == Dict([meals |-> meals])

\* object bodies whose "meals" is missing, null, or not a list
OddBodies ==
  {Dict(EmptyMeal), MealsBody(PyNone), MealsBody(Num(5)), MealsBody(Str(<<"x">>))}

\* "meals" arrays: every array of at most MaxMeals elements, and one in which
\* a meal that cannot be transformed precedes one that can
ListBodies(elems) ==
  {MealsBody(List(xs)) : xs \in SeqsUpTo(elems, MaxMeals)}
    \cup {MealsBody(List(<<Dict(BadMeal), Dict(GoodMeal)>>))}

Responses(elems) ==
  {Failed(k) : k \in NetFailures}
    \cup {Ok(b) : b \in NonObjectBodies \cup OddBodies \cup ListBodies(elems)}

\* elements of a "meals" array: search skips the ones it cannot transform,
\* lookup looks at the first only
SearchElements == {Dict(GoodMeal), Dict(BadMeal)}
LookupElements == SearchElements \cup {Dict(EmptyMeal), Str(<<"x">>)}
SearchResponses == Responses(SearchElements)
LookupResponses == Responses(LookupElements)

\* transform_meal_to_recipe of the raw meals above, computed once
\* the records of the meals the responses carry, transformed once
Transformed == [m \in {GoodMeal, EmptyMeal} |-> transform_meal_to_recipe(m)]
TransformOf(meal) == Transformed[meal]

\* what a response looks like to the adapter: the request failed, the parsed
\* body is not an object, it carries no meal ("meals" missing, null, not a
\* list, empty, or its first element not a non-empty object), its first meal
\* cannot be transformed, or it carries a meal
ResponseShape(net) ==
  LET meals == Get(net.body.v, "meals")
  IN  IF net.kind # "ok" THEN "failed"
      ELSE IF net.body.t # "dict" THEN "not_object"
      ELSE IF meals.t # "list" \/ meals.v = <<>> THEN "no_meal"
      ELSE IF meals.v[1].t # "dict" \/ DOMAIN meals.v[1].v = {} THEN "no_meal"
      ELSE IF TransformRaises(meals.v[1].v) THEN "untransformable"
      ELSE "meal"

(* ------------------------------ adapter -------------------------------- *)
QueryChars == {" ", "a", "A"}
Queries == StringsUpTo(QueryChars, MaxLen)
IdChars == {" ", "7"}
Ids == StringsUpTo(IdChars, MaxLen)

\* not query or not str(query).strip()
\* variant that tests emptiness only
Blank_EmptyOnly(text) == text = <<>>

Blank(text) == text = <<>> \/ Strip(text) = <<>>

\* `for m in meals` works for these values; it raises TypeError for the others
Iterable(meals) == meals.t \in {"list", "str", "dict"}

\* the elements `for m in meals` visits (a str yields its characters, a dict
\* its keys: none of them is a dict)
IterElems(meals) ==
  CASE meals.t = "list" -> meals.v
    [] meals.t = "str"  -> [i \in 1..Len(meals.v) |-> Str(<<meals.v[i]>>)]
    [] OTHER            -> <<>>

\* the loop of search_meals: transform the dict elements, skip the others and
\* those whose transform raises
RECURSIVE TransformAll(_)
TransformAll(ms) ==
  IF ms = <<>> THEN <<>>
  ELSE (IF Head(ms).t = "dict" /\ ~TransformRaises(Head(ms).v)
        THEN <<TransformOf(Head(ms).v)>> ELSE <<>>)
       \o TransformAll(Tail(ms))

\* the handlers of the failed request storing the empty list they return
search_after_cache_CacheFailure(class, c, url, isUp, store, query, net) ==
  With([result |-> PyNone, raised |-> "", client |-> c, redis |-> store,
        events |-> <<"http_get">>], LAMBDA none :
  With(Get(net.body.v, "meals"), LAMBDA meals :
    IF net.kind # "ok"
    THEN With(set_search(class, c, url, isUp, store, query, List(<<>>)), LAMBDA w :
           [result |-> List(<<>>), raised |-> "", client |-> w.client,
            redis |-> w.redis, events |-> <<"http_get", "cache_set">>])
    ELSE IF net.body.t # "dict" THEN [none EXCEPT !.raised = "AttributeError"]
    ELSE IF meals.t # "null" /\ ~Iterable(meals)
         THEN [none EXCEPT !.raised = "TypeError"]
    ELSE With(List(IF meals.t = "null" THEN <<>> ELSE TransformAll(IterElems(meals))),
              LAMBDA results :
         With(set_search(class, c, url, isUp, store, query, results), LAMBDA w :
           [result |-> results, raised |-> "", client |-> w.client,
            redis |-> w.redis, events |-> <<"http_get", "cache_set">>]))))

\* search_meals from the HTTP request on (lines 144-190)
search_after_cache(class, c, url, isUp, store, query, net) ==
  With([result |-> PyNone, raised |-> "", client |-> c, redis |-> store,
        events |-> <<"http_get">>], LAMBDA none :
  With(Get(net.body.v, "meals"), LAMBDA meals :
    IF net.kind # "ok" THEN [none EXCEPT !.result = List(<<>>)]
    ELSE IF net.body.t # "dict" THEN [none EXCEPT !.raised = "AttributeError"]
    ELSE IF meals.t # "null" /\ ~Iterable(meals)
         THEN [none EXCEPT !.raised = "TypeError"]
    ELSE With(List(IF meals.t = "null" THEN <<>> ELSE TransformAll(IterElems(meals))),
              LAMBDA results :
         With(set_search(class, c, url, isUp, store, query, results), LAMBDA w :
           [result |-> results, raised |-> "", client |-> w.client,
            redis |-> w.redis, events |-> <<"http_get", "cache_set">>]))))

\* the result of the cache check: is_available(), then the read when the
\* cache is available
CacheCheck(a, g) ==
  [ret |-> IF a.ret THEN g.ret ELSE PyNone,
   client |-> IF a.ret THEN g.client ELSE a.client,
   events |-> IF a.ret THEN <<"is_available", "cache_get">> ELSE <<"is_available">>,
   misses |-> IF a.ret THEN 1 ELSE 0]

\* search_meals writing the cached list back on a cache hit
search_meals_RefreshOnHit(class, c, url, isUp, store, query, net) ==
  IF Blank(query)
  THEN [result |-> List(<<>>), raised |-> "", client |-> c, redis |-> store,
        events |-> <<>>, hits |-> 0, misses |-> 0]
  ELSE With(is_available(class, c, url, isUp), LAMBDA a :
       With(CacheCheck(a, get_search(class, a.client, url, isUp, store, query)),
            LAMBDA g :
         IF g.ret.t # "null"
         THEN [result |-> g.ret, raised |-> "", client |-> g.client,
               redis |-> set_search(class, g.client, url, isUp, store, query,
                                    g.ret).redis,
               events |-> g.events \o <<"cache_set">>, hits |-> 1, misses |-> 0]
         ELSE With(search_after_cache(class, g.client, url, isUp, store, query, net),
                   LAMBDA h :
                [result |-> h.result, raised |-> h.raised, client |-> h.client,
                 redis |-> h.redis, events |-> g.events \o h.events, hits |-> 0,
                 misses |-> g.misses])))

\* TheMealDBAdapter.search_meals: what it returns or raises, the cache state
\* it leaves, the external operations it performed in order, and the cache
\* hits and misses it reported
search_meals(class, c, url, isUp, store, query, net) ==
  IF Blank(query)
  THEN [result |-> List(<<>>), raised |-> "", client |-> c, redis |-> store,
        events |-> <<>>, hits |-> 0, misses |-> 0]
  ELSE With(is_available(class, c, url, isUp), LAMBDA a :
       With(CacheCheck(a, get_search(class, a.client, url, isUp, store, query)),
            LAMBDA g :
         IF g.ret.t # "null"
         THEN [result |-> g.ret, raised |-> "", client |-> g.client, redis |-> store,
               events |-> g.events, hits |-> 1, misses |-> 0]
         ELSE With(search_after_cache(class, g.client, url, isUp, store, query, net),
                   LAMBDA h :
                [result |-> h.result, raised |-> h.raised, client |-> h.client,
                 redis |-> h.redis, events |-> g.events \o h.events, hits |-> 0,
                 misses |-> g.misses])))

\* get_meal_by_id from the HTTP request on (lines 219-272)
lookup_after_cache(class, c, url, isUp, store, meal_id, net) ==
  With([result |-> PyNone, raised |-> "", client |-> c, redis |-> store,
        events |-> <<"http_get">>], LAMBDA none :
  With(Get(net.body.v, "meals"), LAMBDA meals :
    IF net.kind # "ok" THEN none
    ELSE IF net.body.t # "dict" THEN [none EXCEPT !.raised = "AttributeError"]
    ELSE With(IF ~Truthy(meals) \/ meals.t # "list" THEN PyNone
              ELSE IF meals.v[1].t = "dict" THEN meals.v[1] ELSE PyNone,
              LAMBDA meal :
         IF Truthy(meal) /\ TransformRaises(meal.v) THEN none
         ELSE With(IF Truthy(meal) THEN TransformOf(meal.v) ELSE PyNone,
                   LAMBDA result :
              With(set_meal(class, c, url, isUp, store, meal_id, result), LAMBDA w :
                [result |-> result, raised |-> "", client |-> w.client,
                 redis |-> w.redis, events |-> <<"http_get", "cache_set">>])))))

\* TheMealDBAdapter.get_meal_by_id
get_meal_by_id(class, c, url, isUp, store, meal_id, net) ==
  IF Blank(meal_id)
  THEN [result |-> PyNone, raised |-> "", client |-> c, redis |-> store,
        events |-> <<>>, hits |-> 0, misses |-> 0]
  ELSE With(is_available(class, c, url, isUp), LAMBDA a :
       With(CacheCheck(a, get_meal(class, a.client, url, isUp, store, meal_id)),
            LAMBDA g :
         IF g.ret.t # "null"
         THEN [result |-> IF g.ret = CACHED_NONE THEN PyNone ELSE g.ret,
               raised |-> "", client |-> g.client, redis |-> store,
               events |-> g.events, hits |-> 1, misses |-> 0]
         ELSE With(lookup_after_cache(class, g.client, url, isUp, store, meal_id, net),
                   LAMBDA h :
                [result |-> h.result, raised |-> h.raised, client |-> h.client,
                 redis |-> h.redis, events |-> g.events \o h.events, hits |-> 0,
                 misses |-> g.misses])))

(* --------------------------- request metrics --------------------------- *)
\* _request_metrics_var: no RequestMetrics (the default), or a fresh one
\* (start_request_metrics(), the first statement of every API route)
NoMetrics == [started |-> FALSE, cache_hits |-> 0, cache_misses |-> 0]
start_request_metrics == [started |-> TRUE, cache_hits |-> 0, cache_misses |-> 0]

record_cache_hit(m) == IF m.started THEN [m EXCEPT !.cache_hits = @ + 1] ELSE m
record_cache_miss(m) == IF m.started THEN [m EXCEPT !.cache_misses = @ + 1] ELSE m

\* the request's metrics after an adapter call that reported hits and misses
Recorded(m, o) ==
  LET m1 == IF o.hits > 0 THEN record_cache_hit(m) ELSE m
  IN  IF o.misses > 0 THEN record_cache_miss(m1) ELSE m1

(* ------------------------- adapter state machine ----------------------- *)
vars == <<cache_class, redis_url, client, up, redis, calls, last, firstMiss,
          written, recipes, uuids, batch, response, created, mapping,
          normalized,
          threads, api, fetched, adapted>>

SearchKeySet == {SearchKey(q) : q \in Queries}
MealKeySet == {MealKey(i) : i \in Ids}
RedisKeys == SearchKeySet \cup MealKeySet

NoMiss == [set |-> FALSE, stored |-> PyNone]
Unwritten == [t |-> "never", v |-> PyNone, id |-> <<>>]
Stored(meal_id, value) == [t |-> "stored", v |-> value, id |-> meal_id]

NoOp ==
  [op |-> "none", arg |-> <<>>, net |-> "", shape |-> "", result |-> PyNone,
   raised |-> "", events |-> <<>>, metrics |-> NoMetrics]

\* the normalizer has not been called
NormIdle ==
  /\ mapping = <<>>
  /\ normalized = <<>>

\* no concurrent adapter calls
RaceIdle ==
  /\ threads = <<>>
  /\ api = <<>>

\* the transform has not been called
TransformIdle ==
  /\ fetched = <<>>
  /\ adapted = <<>>

\* the store plays no part in the adapter's behaviours
StoreIdle ==
  /\ recipes = <<>>
  /\ uuids = 0
  /\ batch = <<>>
  /\ response = [op |-> "none", arg |-> <<>>, status |-> 0, count |-> 0,
                 valid |-> <<>>, errors |-> <<>>, raised |-> ""]
  /\ created = [live |-> {}, gone |-> {}]

InitCache ==
  /\ cache_class \in {"RedisCacheBackend", "NoOpCacheBackend"}
  /\ redis_url \in {"redis://localhost:6379/0", ""}
  /\ client = "None"
  /\ up \in BOOLEAN
  /\ redis = [k \in RedisKeys |-> NoEntry]
  /\ calls = 0
  /\ last = NoOp
  /\ firstMiss = [k \in SearchKeySet |-> NoMiss]
  /\ written = [k \in MealKeySet |-> Unwritten]
  /\ StoreIdle
  /\ NormIdle
  /\ RaceIdle
  /\ TransformIdle

\* GET /api/recipes?search=...: start_request_metrics(), then the search
\* through the adapter
SearchMeals ==
  /\ calls < MaxCalls
  /\ last = NoOp
  /\ \E query \in Queries, net \in SearchResponses :
       \E o \in {search_meals(cache_class, client, redis_url, up, redis, query, net)} :
       LET k == SearchKey(query)
           fills == /\ ~Blank(query)
                    /\ up
                    /\ o.misses = 1
                    /\ net.kind = "ok"
                    /\ ~firstMiss[k].set
       IN  /\ client' = o.client
           /\ redis' = o.redis
           /\ last' = [op |-> "search_meals", arg |-> query, net |-> net.kind,
                       shape |-> ResponseShape(net),
                       result |-> o.result, raised |-> o.raised,
                       events |-> o.events, metrics |-> Recorded(start_request_metrics, o)]
           /\ firstMiss' =
                IF fills
                THEN [firstMiss EXCEPT ![k] =
                        [set |-> TRUE,
                         stored |-> IF o.raised = "" THEN o.result ELSE PyNone]]
                ELSE firstMiss
  /\ calls' = calls + 1
  /\ UNCHANGED <<cache_class, redis_url, up, written>>
  /\ UNCHANGED storeVars
  /\ UNCHANGED normVars
  /\ UNCHANGED transformVars
  /\ UNCHANGED raceVars

\* GET /api/recipes/external/{id}: start_request_metrics(), then the lookup
\* through the adapter
GetMealById ==
  /\ calls < MaxCalls
  /\ last = NoOp
  /\ \E meal_id \in Ids, net \in LookupResponses :
       \E o \in {get_meal_by_id(cache_class, client, redis_url, up, redis, meal_id, net)} :
           /\ client' = o.client
           /\ redis' = o.redis
           /\ last' = [op |-> "get_meal_by_id", arg |-> meal_id, net |-> net.kind,
                       shape |-> ResponseShape(net),
                       result |-> o.result, raised |-> o.raised,
                       events |-> o.events, metrics |-> Recorded(start_request_metrics, o)]
  /\ calls' = calls + 1
  /\ UNCHANGED <<cache_class, redis_url, up, firstMiss, written>>
  /\ UNCHANGED storeVars
  /\ UNCHANGED normVars
  /\ UNCHANGED transformVars
  /\ UNCHANGED raceVars

\* the route handler takes the adapter's result and the request ends
Respond ==
  /\ last # NoOp
  /\ last' = NoOp
  /\ UNCHANGED <<cache_class, redis_url, client, up, redis, calls, firstMiss, written>>
  /\ UNCHANGED storeVars
  /\ UNCHANGED normVars
  /\ UNCHANGED transformVars
  /\ UNCHANGED raceVars

\* environment: the Redis server stops answering
RedisDown ==
  /\ up
  /\ up' = FALSE
  /\ firstMiss' = [k \in SearchKeySet |-> NoMiss]
  /\ UNCHANGED <<cache_class, redis_url, client, redis, calls, last, written>>
  /\ UNCHANGED storeVars
  /\ UNCHANGED normVars
  /\ UNCHANGED transformVars
  /\ UNCHANGED raceVars

\* environment: the Redis server answers again
RedisUp ==
  /\ ~up
  /\ up' = TRUE
  /\ UNCHANGED <<cache_class, redis_url, client, redis, calls, last, firstMiss, written>>
  /\ UNCHANGED storeVars
  /\ UNCHANGED normVars
  /\ UNCHANGED transformVars
  /\ UNCHANGED raceVars

\* environment: the TTL of an entry runs out (ex=CACHE_TTL_SECONDS)
Expire ==
  /\ \E k \in RedisKeys :
       /\ redis[k] # NoEntry
       /\ redis' = [redis EXCEPT ![k] = NoEntry]
       /\ firstMiss' = [j \in SearchKeySet |-> IF j = k THEN NoMiss ELSE firstMiss[j]]
       /\ written' = [j \in MealKeySet |-> IF j = k THEN Unwritten ELSE written[j]]
  /\ UNCHANGED <<cache_class, redis_url, client, up, calls, last>>
  /\ UNCHANGED storeVars
  /\ UNCHANGED normVars
  /\ UNCHANGED transformVars
  /\ UNCHANGED raceVars

NextAdapter ==
  SearchMeals \/ GetMealById \/ Respond \/ RedisDown \/ RedisUp \/ Expire
SpecAdapter == InitCache /\ [][NextAdapter]_vars


(* --------------------- properties of the adapter ---------------------- *)
\* empty or whitespace-only text
IsBlankText(s) == \A i \in 1..Len(s) : IsSpace(s[i])

Has(events, e) == \E i \in 1..Len(events) : events[i] = e

\* C1: search_meals never raises: for every non-blank query and every way
\* the network step can end it returns a list, and the list is empty when the
\* request itself failed.
C1_SearchNeverRaises ==
  (last.op = "search_meals" /\ ~IsBlankText(last.arg)) =>
    /\ last.raised = ""
    /\ last.result.t = "list"
    /\ (Has(last.events, "http_get") /\ last.net \in NetFailures) =>
         last.result = List(<<>>)

\* C2: get_meal_by_id never raises: for every non-blank id it returns, and
\* it returns None whenever the network step ended in anything but a meal.
C2_LookupNeverRaises ==
  (last.op = "get_meal_by_id" /\ ~IsBlankText(last.arg)) =>
    /\ last.raised = ""
    /\ (Has(last.events, "http_get") /\ last.shape # "meal") => last.result = PyNone

\* C3: for an empty or whitespace-only query or id the adapter returns [] or
\* None at once: no HTTP request, no cache call of any kind (is_available,
\* get, set), whatever the cache holds.
C3_BlankShortCircuits ==
  (last.op \in {"search_meals", "get_meal_by_id"} /\ IsBlankText(last.arg)) =>
    /\ last.raised = ""
    /\ last.events = <<>>
    /\ last.result = IF last.op = "search_meals" THEN List(<<>>) ELSE PyNone
    /\ last.metrics = start_request_metrics

\* a whitespace-only id was looked up while the cache was reachable and held
\* an entry
C3_Witness ==
  /\ last.op = "get_meal_by_id"
  /\ last.arg # <<>>
  /\ IsBlankText(last.arg)
  /\ last.result = PyNone
  /\ up
  /\ client = "Redis"
  /\ \E k \in RedisKeys : redis[k] # NoEntry

\* a step that is one call of the named adapter operation
CallOf(op) == last = NoOp /\ last'.op = op

\* C4: cache available, no TTL expiry: once a search for q1 has missed the
\* cache and its network step has succeeded, every later search whose query
\* normalises to the same key returns the list the first call stored and
\* performs no HTTP request.
C4_MissThenHit ==
  [][(/\ CallOf("search_meals")
      /\ ~IsBlankText(last'.arg)
      /\ up
      /\ firstMiss[SearchKey(last'.arg)].set)
     => (/\ last'.raised = ""
         /\ ~Has(last'.events, "http_get")
         /\ last'.result = firstMiss[SearchKey(last'.arg)].stored)]_vars

\* C5: the cache is reachable and holds the "confirmed absent" sentinel under
\* the trimmed id: get_meal_by_id returns None with no HTTP request and no
\* cache write, the cache is left as it was, and the request's metrics show
\* exactly one cache hit and no cache miss.
C5_SentinelHit ==
  [][(/\ CallOf("get_meal_by_id")
      /\ up
      /\ redis[CACHE_KEY_MEAL \o Strip(last'.arg)] = NONE_TEXT)
     => (/\ last'.raised = ""
         /\ last'.result = PyNone
         /\ ~Has(last'.events, "http_get")
         /\ ~Has(last'.events, "cache_set")
         /\ redis' = redis
         /\ last'.metrics.cache_hits = 1
         /\ last'.metrics.cache_misses = 0)]_vars

\* a lookup was answered from the sentinel, with padding around the id
C5_Witness ==
  /\ last.op = "get_meal_by_id"
  /\ ~IsBlankText(last.arg)
  /\ last.arg # Strip(last.arg)
  /\ redis[MealKey(last.arg)] = NONE_TEXT
  /\ last.events = <<"is_available", "cache_get">>
  /\ last.metrics.cache_hits = 1

\* C6: after a cache miss and a successful network step, an operation that
\* returns has written its result to the cache: search_meals the list (also
\* the empty one), get_meal_by_id the record, or the sentinel for None.
C6_WriteBack ==
  [][(/\ CallOf("search_meals") \/ CallOf("get_meal_by_id")
      /\ up
      /\ last'.metrics.cache_misses = 1
      /\ last'.net = "ok"
      /\ last'.raised = "")
     => IF last'.op = "search_meals"
        THEN redis'[SearchKey(last'.arg)] = JsonDumps(last'.result)
        ELSE redis'[MealKey(last'.arg)] =
               IF last'.result = PyNone THEN NONE_TEXT
               ELSE JsonDumps(last'.result)]_vars

(* ------------------------- the cache facade alone ---------------------- *)
\* values handed to set_meal: None, a transformed recipe, the empty dict
MealValues == {PyNone, TransformOf(GoodMeal), Dict(EmptyMeal)}

\* CacheBackend.set_meal(meal_id, value), called directly
SetMeal ==
  /\ calls < MaxCalls
  /\ last = NoOp
  /\ \E meal_id \in Ids, value \in MealValues :
       \E o \in {set_meal(cache_class, client, redis_url, up, redis, meal_id, value)} :
           /\ client' = o.client
           /\ redis' = o.redis
           /\ last' = [NoOp EXCEPT !.op = "set_meal", !.arg = meal_id]
           /\ written' =
                IF cache_class = "RedisCacheBackend" /\ o.client = "Redis" /\ up
                THEN [written EXCEPT ![MealKey(meal_id)] = Stored(meal_id, value)]
                ELSE written
  /\ calls' = calls + 1
  /\ UNCHANGED <<cache_class, redis_url, up, firstMiss>>
  /\ UNCHANGED storeVars
  /\ UNCHANGED normVars
  /\ UNCHANGED transformVars
  /\ UNCHANGED raceVars

\* CacheBackend.get_meal(meal_id), called directly
GetMeal ==
  /\ calls < MaxCalls
  /\ last = NoOp
  /\ \E meal_id \in Ids :
       \E o \in {get_meal(cache_class, client, redis_url, up, redis, meal_id)} :
           /\ client' = o.client
           /\ last' = [NoOp EXCEPT !.op = "get_meal", !.arg = meal_id,
                                   !.result = o.ret]
  /\ calls' = calls + 1
  /\ UNCHANGED <<cache_class, redis_url, up, redis, firstMiss, written>>
  /\ UNCHANGED storeVars
  /\ UNCHANGED normVars
  /\ UNCHANGED transformVars
  /\ UNCHANGED raceVars

\* a Python bool as a value
Bool(b) == [t |-> "bool", v |-> b]

\* CacheBackend.is_available(), called directly
IsAvailable ==
  /\ calls < MaxCalls
  /\ last = NoOp
  /\ \E o \in {is_available(cache_class, client, redis_url, up)} :
       /\ client' = o.client
       /\ last' = [NoOp EXCEPT !.op = "is_available", !.result = Bool(o.ret)]
  /\ calls' = calls + 1
  /\ UNCHANGED <<cache_class, redis_url, up, redis, firstMiss, written>>
  /\ UNCHANGED storeVars
  /\ UNCHANGED normVars
  /\ UNCHANGED transformVars
  /\ UNCHANGED raceVars

NextCache ==
  SetMeal \/ GetMeal \/ IsAvailable \/ Respond \/ RedisDown \/ RedisUp \/ Expire
SpecCache == InitCache /\ [][NextCache]_vars

\* C7: with a reachable Redis backend, get_meal(id) returns None when the
\* key was never set (or has expired), CACHED_NONE when the last set_meal for
\* the same trimmed id stored None, and otherwise a dict equal to the record
\* last stored, which is never CACHED_NONE.
C7_MealRoundTrip ==
  [][(/\ CallOf("get_meal")
      /\ cache_class = "RedisCacheBackend"
      /\ up
      /\ Handle(client, redis_url, up) = "Redis")
     => LET w == written[CACHE_KEY_MEAL \o Strip(last'.arg)]
        IN  /\ w.t = "never" => last'.result = PyNone
            /\ (w.t = "stored" /\ w.v = PyNone) => last'.result = CACHED_NONE
            /\ (w.t = "stored" /\ w.v # PyNone) =>
                 /\ last'.result = w.v
                 /\ last'.result.t = "dict"
                 /\ last'.result # CACHED_NONE]_vars

\* a record stored under one spelling of an id was read back under another
C7_Witness ==
  /\ last.op = "get_meal"
  /\ written[MealKey(last.arg)].t = "stored"
  /\ written[MealKey(last.arg)].id # last.arg
  /\ last.result = TransformOf(GoodMeal)
  /\ last.result = written[MealKey(last.arg)].v

(* ------------------------- recipes and their schema -------------------- *)
MAX_TITLE_LENGTH == 200
MAX_DESCRIPTION_LENGTH == 10000
MAX_INGREDIENTS == 50
MAX_INSTRUCTIONS == 100
MAX_TAGS == 20
MAX_CUISINE_LENGTH == 100

\* dict with key set to val / with key removed
Put(d, key, val) == [k \in DOMAIN d \cup {key} |-> IF k = key THEN val ELSE d[k]]
Pop(d, key) == [k \in DOMAIN d \ {key} |-> d[k]]

\* datetime values carry their ISO text; a timestamp is one character of text
NowText == <<"2026-01-01T00:00:00">>
IsoTexts == {<<"2024-05-01T12:00:00">>, NowText}
DateTime(text) == [t |-> "datetime", v |-> text]
\* datetime.fromisoformat(text) raises ValueError unless text is ISO 8601
FromIsoformatRaises(text) == text \notin IsoTexts
fromisoformat(text) == DateTime(text)
isoformat(d) == Str(d.v)

\* str.split("\n\n")
RECURSIVE SplitParagraphs(_, _)
SplitParagraphs(s, cur) ==
  IF s = <<>> THEN <<cur>>
  ELSE IF Len(s) >= 2 /\ s[1] = "\n" /\ s[2] = "\n"
       THEN <<cur>> \o SplitParagraphs(SubSeq(s, 3, Len(s)), <<>>)
       ELSE SplitParagraphs(Tail(s), Append(cur, Head(s)))

\* [s.strip() for s in text.split("\n\n") if s.strip()], or [text] when that
\* is empty
LegacySteps(text) ==
  With(SplitParagraphs(text, <<>>), LAMBDA parts :
  With(SelectSeq([i \in 1..Len(parts) |-> Str(Strip(parts[i]))],
                 LAMBDA p : p.v # <<>>), LAMBDA steps :
    IF steps # <<>> THEN List(steps) ELSE List(<<Str(text)>>)))

\* migrate_legacy_recipe_format raises ValueError on a timestamp string that
\* is not ISO 8601
MigrateRaises(recipe_dict) ==
  \E f \in {"created_at", "updated_at"} :
     /\ f \in DOMAIN recipe_dict
     /\ recipe_dict[f].t = "str"
     /\ FromIsoformatRaises(recipe_dict[f].v)

ParseDate(data, f) ==
  IF f \in DOMAIN data /\ data[f].t = "str"
  THEN Put(data, f, fromisoformat(data[f].v))
  ELSE data

migrate_legacy_recipe_format(recipe_dict) ==
  With(IF Get(recipe_dict, "instructions").t = "str"
       THEN Put(recipe_dict, "instructions", LegacySteps(recipe_dict["instructions"].v))
       ELSE recipe_dict, LAMBDA d1 :
  With(Pop(d1, "difficulty"), LAMBDA d2 :
  With(IF "cuisine" \notin DOMAIN d2 THEN Put(d2, "cuisine", PyNone) ELSE d2,
       LAMBDA d3 :
  With(IF "tags" \notin DOMAIN d3 THEN Put(d3, "tags", List(<<>>)) ELSE d3,
       LAMBDA d4 :
    ParseDate(ParseDate(d4, "created_at"), "updated_at")))))

\* one pydantic error: where, and of what kind
Err(loc, type) == [loc |-> loc, type |-> type]

\* a str field with min_length / max_length
StrErrors(data, f, required, nullable, min, max) ==
  IF f \notin DOMAIN data
  THEN IF required THEN <<Err(<<f>>, "missing")>> ELSE <<>>
  ELSE IF nullable /\ data[f] = PyNone THEN <<>>
  ELSE IF data[f].t # "str" THEN <<Err(<<f>>, "string_type")>>
  ELSE IF Len(data[f].v) < min THEN <<Err(<<f>>, "string_too_short")>>
  ELSE IF Len(data[f].v) > max THEN <<Err(<<f>>, "string_too_long")>>
  ELSE <<>>

\* the list constraint without its min_length
ListErrors_NoMinimum(data, f, required, min, max) ==
  IF f \notin DOMAIN data
  THEN IF required THEN <<Err(<<f>>, "missing")>> ELSE <<>>
  ELSE IF data[f].t # "list" THEN <<Err(<<f>>, "list_type")>>
  ELSE IF Len(data[f].v) > max THEN <<Err(<<f>>, "too_long")>>
  ELSE LET items == data[f].v
           bad == SelectSeq([i \in 1..Len(items) |-> i],
                            LAMBDA i : items[i].t # "str")
       IN  [j \in 1..Len(bad) |-> Err(<<f, DigitText[bad[j]]>>, "string_type")]

\* a List[str] field with min_length / max_length
ListErrors(data, f, required, min, max) ==
  IF f \notin DOMAIN data
  THEN IF required THEN <<Err(<<f>>, "missing")>> ELSE <<>>
  ELSE IF data[f].t # "list" THEN <<Err(<<f>>, "list_type")>>
  ELSE IF Len(data[f].v) < min THEN <<Err(<<f>>, "too_short")>>
  ELSE IF Len(data[f].v) > max THEN <<Err(<<f>>, "too_long")>>
  ELSE LET items == data[f].v
           bad == SelectSeq([i \in 1..Len(items) |-> i],
                            LAMBDA i : items[i].t # "str")
       IN  [j \in 1..Len(bad) |-> Err(<<f, DigitText[bad[j]]>>, "string_type")]

\* a datetime field with a default
DateErrors(data, f) ==
  IF f \notin DOMAIN data \/ data[f].t = "datetime" THEN <<>>
  ELSE <<Err(<<f>>, "datetime_type")>>

\* the errors of Recipe(**data), field by field in declaration order
RecipeErrors(data) ==
  (IF "id" \in DOMAIN data /\ data["id"].t # "str"
   THEN <<Err(<<"id">>, "string_type")>> ELSE <<>>)
  \o StrErrors(data, "title", TRUE, FALSE, 1, MAX_TITLE_LENGTH)
  \o StrErrors(data, "description", TRUE, FALSE, 1, MAX_DESCRIPTION_LENGTH)
  \o ListErrors(data, "ingredients", TRUE, 1, MAX_INGREDIENTS)
  \o ListErrors(data, "instructions", TRUE, 1, MAX_INSTRUCTIONS)
  \o ListErrors(data, "tags", FALSE, 0, MAX_TAGS)
  \o StrErrors(data, "cuisine", FALSE, TRUE, 0, MAX_CUISINE_LENGTH)
  \o DateErrors(data, "created_at")
  \o DateErrors(data, "updated_at")

\* str(uuid.uuid4()): the n-th identifier drawn
Uuid(n) == Str(<<"uuid4-", DigitText[n + 1]>>)

\* Recipe(**data) for data without errors; n identifiers were drawn before
Recipe(data, n) ==
  [id |-> GetOr(data, "id", Uuid(n)),
   title |-> data["title"],
   description |-> data["description"],
   ingredients |-> data["ingredients"],
   instructions |-> data["instructions"],
   tags |-> GetOr(data, "tags", List(<<>>)),
   cuisine |-> GetOr(data, "cuisine", PyNone),
   created_at |-> GetOr(data, "created_at", DateTime(NowText)),
   updated_at |-> GetOr(data, "updated_at", DateTime(NowText))]

\* identifiers drawn by Recipe(**data)
Drawn(data, n) == IF "id" \in DOMAIN data THEN n ELSE n + 1

\* Recipe.model_dump(mode="json")
model_dump_json(recipe) ==
  Dict([recipe EXCEPT !.created_at = isoformat(@), !.updated_at = isoformat(@)])

(* ---------------------------- the validator ---------------------------- *)
\* validate_recipe_for_import: [recipe, errs, raised, uuids]
validate_recipe_for_import(recipe_dict, n) ==
  With([recipe |-> PyNone, errs |-> <<>>, raised |-> "", uuids |-> n], LAMBDA none :
    IF recipe_dict.t # "dict"
    THEN [none EXCEPT !.errs = <<Err(<<"body">>, "type_error")>>]
    ELSE IF MigrateRaises(recipe_dict.v) THEN [none EXCEPT !.raised = "ValueError"]
    ELSE With(migrate_legacy_recipe_format(recipe_dict.v), LAMBDA migrated :
         With(RecipeErrors(migrated), LAMBDA errors :
           IF errors # <<>>
           THEN [none EXCEPT !.errs = [i \in 1..Len(errors) |->
                                         Err(<<"body">> \o errors[i].loc, errors[i].type)]]
           ELSE [none EXCEPT !.recipe = Recipe(migrated, n),
                             !.uuids = Drawn(migrated, n)])))

\* the error copies of validate_recipes_for_import for the item at index i
Indexed(errs, i, item) ==
  [j \in 1..Len(errs) |->
     [loc |-> errs[j].loc, type |-> errs[j].type, index |-> i,
      recipe_id |-> IF item.t = "dict" THEN GetOr(item.v, "id", Str(<<"?">>))
                    ELSE Str(<<"?">>),
      recipe_title |-> IF item.t = "dict"
                       THEN GetOr(item.v, "title", Str(<<"<no title>">>))
                       ELSE Str(<<"<no title>">>)]]

RECURSIVE ValidateFrom(_, _, _, _, _)
ValidateFrom(recipes_data, i, n, valid, all_errors) ==
  IF i > Len(recipes_data)
  THEN [valid |-> valid, errors |-> all_errors, raised |-> "", uuids |-> n]
  ELSE With(validate_recipe_for_import(recipes_data[i], n), LAMBDA o :
         IF o.raised # ""
         THEN [valid |-> valid, errors |-> all_errors, raised |-> o.raised,
               uuids |-> n]
         ELSE IF o.errs # <<>>
              THEN ValidateFrom(recipes_data, i + 1, n, valid,
                                all_errors \o Indexed(o.errs, i - 1, recipes_data[i]))
              ELSE ValidateFrom(recipes_data, i + 1, o.uuids,
                                Append(valid, o.recipe), all_errors))

\* validate_recipes_for_import: [valid, errors, raised, uuids]
validate_recipes_for_import(recipes_data, n) ==
  ValidateFrom(recipes_data, 1, n, <<>>, <<>>)

(* ------------------------------ the store ------------------------------ *)
\* _recipe_to_row: lists as JSON text, timestamps as ISO text
RecipeToRow(recipe) ==
  [recipe EXCEPT !.ingredients = JsonDumps(@), !.instructions = JsonDumps(@),
                 !.tags = JsonDumps(@), !.created_at = isoformat(@),
                 !.updated_at = isoformat(@)]

\* _recipe_from_row
RecipeFromRow(row) ==
  [row EXCEPT !.ingredients = JsonLoads(@), !.instructions = JsonLoads(@),
              !.tags = JsonLoads(@), !.created_at = fromisoformat(@.v),
              !.updated_at = fromisoformat(@.v)]

\* the dict as the try block of RecipeStorage.import_recipes has rewritten it
\* when it reaches Recipe(**recipe_dict)
ImportData(recipe_dict) ==
  With(IF Get(recipe_dict, "instructions").t = "str"
       THEN Put(recipe_dict, "instructions", LegacySteps(recipe_dict["instructions"].v))
       ELSE recipe_dict, LAMBDA d1 :
  With(Pop(d1, "difficulty"), LAMBDA d2 :
  With(IF "cuisine" \notin DOMAIN d2 THEN Put(d2, "cuisine", PyNone) ELSE d2,
       LAMBDA d3 :
    ParseDate(ParseDate(d3, "created_at"), "updated_at"))))

\* the body of the try block raises: the element is no dict, a timestamp is
\* no ISO text, the schema rejects the dict, or the id is already in the table
ImportStepRaises(table, recipe_dict) ==
  \/ recipe_dict.t # "dict"
  \/ \E f \in {"created_at", "updated_at"} :
        /\ f \in DOMAIN recipe_dict.v
        /\ \/ recipe_dict.v[f].t # "str"
           \/ FromIsoformatRaises(recipe_dict.v[f].v)
  \/ With(ImportData(recipe_dict.v), LAMBDA data :
        \/ RecipeErrors(data) # <<>>
        \/ "id" \in DOMAIN data /\ data["id"].v \in DOMAIN table)

RECURSIVE ImportFrom(_, _, _, _, _)
ImportFrom(recipes_data, i, table, count, n) ==
  IF i > Len(recipes_data) THEN [recipes |-> table, count |-> count, uuids |-> n]
  ELSE IF ImportStepRaises(table, recipes_data[i])
       THEN ImportFrom(recipes_data, i + 1, table, count, n)
       ELSE With(Recipe(ImportData(recipes_data[i].v), n), LAMBDA recipe :
              ImportFrom(recipes_data, i + 1,
                         Put(table, recipe.id.v, RecipeToRow(recipe)),
                         count + 1, Drawn(recipes_data[i].v, n)))

\* RecipeStorage.import_recipes: _clear_all(), then one INSERT per dict,
\* skipping every dict whose step raises
storage_import_recipes(recipes_data, n) ==
  ImportFrom(recipes_data, 1, <<>>, 0, n)

\* RecipeStorage.create_recipe: Recipe(**recipe_data.model_dump()) checks the
\* schema once more, then the INSERT
storage_create_recipe(table, recipe_data, n) ==
  IF RecipeErrors(recipe_data) # <<>>
  THEN [recipes |-> table, recipe |-> PyNone, uuids |-> n,
        raised |-> "ValidationError"]
  ELSE With(Recipe(recipe_data, n), LAMBDA recipe :
         [recipes |-> Put(table, recipe.id.v, RecipeToRow(recipe)),
          recipe |-> recipe, uuids |-> n + 1, raised |-> ""])

\* RecipeStorage.delete_recipe
storage_delete_recipe(table, recipe_id) ==
  [recipes |-> Pop(table, recipe_id), ret |-> recipe_id \in DOMAIN table]

\* RecipeStorage.get_recipe
storage_get_recipe(table, recipe_id) ==
  IF recipe_id \in DOMAIN table THEN RecipeFromRow(table[recipe_id]) ELSE PyNone

\* the update writing a fresh created_at along with updated_at
storage_update_recipe_Recreated(table, recipe_id, recipe_data) ==
  IF recipe_id \notin DOMAIN table
  THEN [recipes |-> table, ret |-> PyNone, raised |-> ""]
  ELSE IF RecipeErrors(recipe_data) # <<>>
  THEN [recipes |-> table, ret |-> PyNone, raised |-> "ValidationError"]
  ELSE With([RecipeFromRow(table[recipe_id]) EXCEPT
               !.title = recipe_data["title"],
               !.description = recipe_data["description"],
               !.ingredients = recipe_data["ingredients"],
               !.instructions = recipe_data["instructions"],
               !.tags = recipe_data["tags"],
               !.cuisine = recipe_data["cuisine"],
               !.created_at = DateTime(NowText),
               !.updated_at = DateTime(NowText)], LAMBDA recipe :
         [recipes |-> [table EXCEPT ![recipe_id] = RecipeToRow(recipe)],
          ret |-> recipe, raised |-> ""])

\* RecipeStorage.update_recipe: the stored recipe with the six fields of the
\* update and a new updated_at, checked by Recipe(**recipe_dict); the UPDATE
\* statement writes those seven columns of the row with this id
storage_update_recipe(table, recipe_id, recipe_data) ==
  IF recipe_id \notin DOMAIN table
  THEN [recipes |-> table, ret |-> PyNone, raised |-> ""]
  ELSE IF RecipeErrors(recipe_data) # <<>>
  THEN [recipes |-> table, ret |-> PyNone, raised |-> "ValidationError"]
  ELSE With([RecipeFromRow(table[recipe_id]) EXCEPT
               !.title = recipe_data["title"],
               !.description = recipe_data["description"],
               !.ingredients = recipe_data["ingredients"],
               !.instructions = recipe_data["instructions"],
               !.tags = recipe_data["tags"],
               !.cuisine = recipe_data["cuisine"],
               !.updated_at = DateTime(NowText)], LAMBDA recipe :
         [recipes |-> [table EXCEPT ![recipe_id] =
                         [@ EXCEPT !.title = recipe.title,
                                   !.description = recipe.description,
                                   !.ingredients = JsonDumps(recipe.ingredients),
                                   !.instructions = JsonDumps(recipe.instructions),
                                   !.tags = JsonDumps(recipe.tags),
                                   !.cuisine = recipe.cuisine,
                                   !.updated_at = isoformat(recipe.updated_at)]],
          ret |-> recipe, raised |-> ""])

\* the errors of RecipeCreate(**data) / RecipeUpdate(**data): the
\* constraints of Recipe on the six fields; RecipeUpdate requires tags
RecipeDataErrors(data, tagsRequired) ==
  StrErrors(data, "title", TRUE, FALSE, 1, MAX_TITLE_LENGTH)
  \o StrErrors(data, "description", TRUE, FALSE, 1, MAX_DESCRIPTION_LENGTH)
  \o ListErrors(data, "ingredients", TRUE, 1, MAX_INGREDIENTS)
  \o ListErrors(data, "instructions", TRUE, 1, MAX_INSTRUCTIONS)
  \o ListErrors(data, "tags", tagsRequired, 0, MAX_TAGS)
  \o StrErrors(data, "cuisine", FALSE, TRUE, 0, MAX_CUISINE_LENGTH)

\* RecipeCreate.model_dump() / RecipeUpdate.model_dump(): the six fields,
\* with the defaults of the absent ones; other keys of the body are dropped
RecipeDataDump(data) ==
  [title |-> data["title"], description |-> data["description"],
   ingredients |-> data["ingredients"], instructions |-> data["instructions"],
   tags |-> GetOr(data, "tags", List(<<>>)),
   cuisine |-> GetOr(data, "cuisine", PyNone)]

(* ------------------------ the recipe endpoints ------------------------- *)
MaxBatch == 2

\* requests to the recipe routes in one run
MaxRequests == 3

Text(c) == Str(<<c>>)

ItemA ==
  [id |-> Str(<<"r", "1">>), title |-> Text("S"), description |-> Text("d"),
   ingredients |-> List(<<Text("a")>>), instructions |-> List(<<Text("s")>>),
   tags |-> List(<<>>), cuisine |-> PyNone]
\* another recipe under the id of ItemA
ItemA2 == [ItemA EXCEPT !.title = Text("T")]
ItemB ==
  Put([ItemA EXCEPT !.id = Str(<<"r", "2">>), !.cuisine = Text("c")],
      "created_at", Str(<<"2024-05-01T12:00:00">>))
ItemNoId == Pop(ItemA2, "id")
ItemBadIngredients == [ItemA EXCEPT !.id = Str(<<"r", "3">>), !.ingredients = List(<<>>)]
ItemTwoErrors == Pop([ItemA EXCEPT !.title = Str(<<>>)], "description")
ItemBadDate ==
  Put([ItemA EXCEPT !.id = Str(<<"r", "4">>)], "created_at", Str(<<"n", "o">>))
\* the legacy format: instructions as one string, a difficulty, no tags
ItemLegacy ==
  Put(Pop([ItemA EXCEPT !.id = Str(<<"r", "5">>),
                        !.instructions = Str(<<"m", "\n", "\n", " ", "b">>)], "tags"),
      "difficulty", Text("e"))

\* the elements an uploaded array can hold
Items ==
  {Text("x")} \cup
  {Dict(d) : d \in {ItemA, ItemA2, ItemB, ItemNoId, ItemBadIngredients,
                    ItemTwoErrors, ItemBadDate, ItemLegacy}}

Batches == SeqsUpTo(Items, MaxBatch)

\* an upload: too large, text that is not JSON, bytes that are no text in
\* UTF-8, UTF-16 or UTF-32, or JSON with this root
TooLarge == [kind |-> "too_large", root |-> PyNone]
InvalidJson == [kind |-> "invalid_json", root |-> PyNone]
Undecodable == [kind |-> "undecodable", root |-> PyNone]
Json(root) == [kind |-> "json", root |-> root]
Uploads ==
  {TooLarge, InvalidJson, Json(Dict(ItemA))} \cup {Json(List(b)) : b \in Batches}

\* POST /api/recipes/import: [status, count, errors, raised, recipes, uuids]
import_recipes(upload, table, n) ==
  With([status |-> 400, count |-> 0, errors |-> <<>>, raised |-> "",
        recipes |-> table, uuids |-> n], LAMBDA refused :
    IF upload.kind = "too_large" THEN refused
    \* json.loads(content) decodes the bytes before it parses them; only the
    \* parser's JSONDecodeError is caught
    ELSE IF upload.kind = "undecodable"
    THEN [refused EXCEPT !.status = 500, !.raised = "UnicodeDecodeError"]
    ELSE IF upload.kind = "invalid_json" THEN refused
    ELSE IF upload.root.t # "list" THEN refused
    ELSE With(validate_recipes_for_import(upload.root.v, n), LAMBDA v :
      IF v.raised # ""
      THEN [refused EXCEPT !.status = 500, !.raised = v.raised]
      ELSE IF v.errors # <<>>
      THEN [refused EXCEPT !.status = 422, !.errors = v.errors, !.uuids = v.uuids]
      ELSE With(storage_import_recipes(
                  [i \in 1..Len(v.valid) |-> model_dump_json(v.valid[i])], v.uuids),
                LAMBDA done :
             [status |-> 200, count |-> done.count, errors |-> <<>>, raised |-> "",
              recipes |-> done.recipes, uuids |-> done.uuids])))

\* bodies of POST /api/recipes: two that RecipeCreate accepts, one with a key
\* RecipeCreate does not have, one without ingredients, one with an empty
\* title and no description
CreateBodies ==
  {Pop(ItemA, "id"), Pop(ItemB, "id"), ItemA, Pop(ItemBadIngredients, "id"),
   ItemTwoErrors}

\* POST /api/recipes: 422 unless the body is a RecipeCreate
create_recipe(body, table, n) ==
  IF RecipeDataErrors(body, FALSE) # <<>>
  THEN [status |-> 422, recipes |-> table, valid |-> <<>>, uuids |-> n]
  ELSE With(storage_create_recipe(table, RecipeDataDump(body), n), LAMBDA o :
         IF o.raised # ""
         THEN [status |-> 500, recipes |-> o.recipes, valid |-> <<>>,
               uuids |-> o.uuids]
         ELSE [status |-> 200, recipes |-> o.recipes, valid |-> <<o.recipe>>,
               uuids |-> o.uuids])

\* DELETE /api/recipes/{recipe_id}
delete_recipe(recipe_id, table) ==
  With(storage_delete_recipe(table, recipe_id), LAMBDA o :
    [status |-> IF o.ret THEN 200 ELSE 404, recipes |-> o.recipes])

\* the adapter and its cache play no part in the store's behaviours
CacheIdle ==
  /\ cache_class = "NoOpCacheBackend"
  /\ redis_url = ""
  /\ client = "None"
  /\ up = FALSE
  /\ redis = [k \in RedisKeys |-> NoEntry]
  /\ calls = 0
  /\ last = NoOp
  /\ firstMiss = [k \in SearchKeySet |-> NoMiss]
  /\ written = [k \in MealKeySet |-> Unwritten]

NoResponse ==
  [op |-> "none", arg |-> <<>>, status |-> 0, count |-> 0, valid |-> <<>>,
   errors |-> <<>>, raised |-> ""]

InitStore == CacheIdle /\ StoreIdle /\ NormIdle /\ RaceIdle /\ TransformIdle

\* an id no recipe has
MissingId == <<"r", "9">>

\* POST /api/recipes
CreateRecipe ==
  /\ calls < MaxRequests
  /\ \E body \in CreateBodies :
       \E o \in {create_recipe(body, recipes, uuids)} :
           /\ recipes' = o.recipes
           /\ uuids' = o.uuids
           /\ batch' = <<Dict(body)>>
           /\ response' = [NoResponse EXCEPT !.op = "create_recipe",
                                             !.status = o.status, !.valid = o.valid]
           /\ created' = [created EXCEPT
                             !.live = @ \cup {o.valid[i].id.v : i \in 1..Len(o.valid)}]
  /\ calls' = calls + 1
  /\ UNCHANGED <<cache_class, redis_url, client, up, redis, last, firstMiss, written>>
  /\ UNCHANGED normVars
  /\ UNCHANGED transformVars
  /\ UNCHANGED raceVars

\* DELETE /api/recipes/{recipe_id}
DeleteRecipe ==
  /\ calls < MaxRequests
  /\ \E recipe_id \in DOMAIN recipes \cup created.gone \cup {MissingId} :
       \E o \in {delete_recipe(recipe_id, recipes)} :
           /\ recipes' = o.recipes
           /\ response' = [NoResponse EXCEPT !.op = "delete_recipe",
                                             !.arg = recipe_id, !.status = o.status]
           /\ created' = [live |-> created.live \ {recipe_id},
                           gone |-> created.gone \cup (created.live \cap {recipe_id})]
  /\ calls' = calls + 1
  /\ UNCHANGED <<cache_class, redis_url, client, up, redis, last, firstMiss, written,
                 uuids, batch>>
  /\ UNCHANGED normVars
  /\ UNCHANGED transformVars
  /\ UNCHANGED raceVars

\* POST /api/recipes/import with one of the uploads
Import(uploads, limit) ==
  /\ calls < limit
  /\ \E upload \in uploads :
       \E o \in {import_recipes(upload, recipes, uuids)} :
           /\ recipes' = o.recipes
           /\ uuids' = o.uuids
           /\ batch' = IF upload.root.t = "list" THEN upload.root.v ELSE <<>>
           /\ response' = [NoResponse EXCEPT !.op = "import_recipes", !.arg = upload,
                                             !.status = o.status, !.count = o.count,
                                             !.errors = o.errors, !.raised = o.raised]
           /\ created' = [live |-> IF o.status = 200 THEN {} ELSE created.live,
                           gone |-> created.gone \ DOMAIN o.recipes]
  /\ calls' = calls + 1
  /\ UNCHANGED <<cache_class, redis_url, client, up, redis, last, firstMiss, written>>
  /\ UNCHANGED normVars
  /\ UNCHANGED transformVars
  /\ UNCHANGED raceVars

ImportRecipes == Import(Uploads, MaxCalls)

NextStore == CreateRecipe \/ DeleteRecipe \/ ImportRecipes
SpecStore == InitStore /\ [][NextStore]_vars

\* the validator alone, on one batch
InitValidate ==
  /\ CacheIdle
  /\ recipes = <<>>
  /\ uuids = 0
  /\ batch \in Batches
  /\ response = NoResponse
  /\ created = [live |-> {}, gone |-> {}]
  /\ NormIdle
  /\ RaceIdle
  /\ TransformIdle

ValidateBatch ==
  /\ response = NoResponse
  /\ \E o \in {validate_recipes_for_import(batch, uuids)} :
         /\ response' = [NoResponse EXCEPT !.op = "validate_recipes_for_import",
                                           !.valid = o.valid, !.errors = o.errors,
                                           !.raised = o.raised]
         /\ uuids' = o.uuids
  /\ UNCHANGED <<cache_class, redis_url, client, up, redis, calls, last, firstMiss,
                 written, recipes, batch, created>>
  /\ UNCHANGED normVars
  /\ UNCHANGED transformVars
  /\ UNCHANGED raceVars

SpecValidate == InitValidate /\ [][ValidateBatch]_vars

(* ----------------- properties of import and validation ---------------- *)
\* a step that is one POST /api/recipes/import request
ImportStep == calls' = calls + 1 /\ response'.op = "import_recipes"

\* the record does not satisfy the Recipe schema: it is not an object, one of
\* its timestamps is a string that is no timestamp, or a field breaks a
\* constraint after the legacy migration
FailsSchema(item) ==
  \/ item.t # "dict"
  \/ MigrateRaises(item.v)
  \/ RecipeErrors(migrate_legacy_recipe_format(item.v)) # <<>>

\* C8: when some record of the uploaded array fails schema validation, the
\* import answers 422, its errors name every failing record of the batch, and
\* the store is exactly what it was before the request.
C8_AtomicReject ==
  [][(ImportStep /\ \E i \in 1..Len(batch') : FailsSchema(batch'[i]))
     => (/\ response'.status = 422
         /\ recipes' = recipes
         /\ \A i \in 1..Len(batch') : FailsSchema(batch'[i]) =>
              \E j \in 1..Len(response'.errors) : response'.errors[j].index = i - 1)]_vars

\* the stored row is the record of the batch: same title and description, and
\* the record's id when it gives one
RowOf(row, item) ==
  /\ row.title = item.v["title"]
  /\ row.description = item.v["description"]
  /\ "id" \in DOMAIN item.v => row.id = item.v["id"]

\* C9: when the import accepts a batch, the reported count is the number of
\* records of the batch and the store holds exactly the recipes of the batch:
\* one row per record and nothing else.
C9_AcceptedImport ==
  [][(ImportStep /\ response'.status = 200)
     => (/\ response'.count = Len(batch')
         /\ Cardinality(DOMAIN recipes') = Len(batch')
         /\ \A i \in 1..Len(batch') :
              \E id \in DOMAIN recipes' : RowOf(recipes'[id], batch'[i]))]_vars

\* the indices (from 0) of the errors, in the order reported
ErrorIndices == [j \in 1..Len(response.errors) |-> response.errors[j].index]

\* the positions of the batch no error names, in increasing order
Accepted ==
  SelectSeq([i \in 1..Len(batch) |-> i],
            LAMBDA i : \A j \in 1..Len(ErrorIndices) : ErrorIndices[j] # i - 1)

\* C10: validate_recipes_for_import returns without raising; every index of
\* the batch has either one Recipe in valid or at least one error, never both
\* and never neither; valid keeps the order of the batch and errors are
\* ordered by index.
C10_ValidatorTotal ==
  response.op = "validate_recipes_for_import" =>
    /\ response.raised = ""
    /\ \A j \in 1..Len(ErrorIndices) : ErrorIndices[j] \in 0..(Len(batch) - 1)
    /\ \A j, k \in 1..Len(ErrorIndices) : j < k => ErrorIndices[j] <= ErrorIndices[k]
    /\ Len(response.valid) = Len(Accepted)
    /\ \A j \in 1..Len(Accepted) :
         /\ batch[Accepted[j]].t = "dict"
         /\ response.valid[j].title = batch[Accepted[j]].v["title"]

\* the errors reported for the record at position i of the batch
ErrorsAt(i) == SelectSeq(response.errors, LAMBDA e : e.index = i - 1)

\* C11: for a record at index i that is not a mapping the validator emits
\* exactly one error, with location ["body"], type "type_error", index i,
\* recipe_id "?" and recipe_title "<no title>"; for a mapping record every
\* emitted error carries the raw record's id and title, "?" and "<no title>"
\* standing in for an absent key.
C11_ErrorMetadata ==
  response.op = "validate_recipes_for_import" =>
    \A i \in 1..Len(batch) :
       /\ batch[i].t # "dict" =>
            ErrorsAt(i) = <<[loc |-> <<"body">>, type |-> "type_error",
                             index |-> i - 1, recipe_id |-> Str(<<"?">>),
                             recipe_title |-> Str(<<"<no title>">>)]>>
       /\ batch[i].t = "dict" =>
            \A j \in 1..Len(ErrorsAt(i)) :
               /\ ErrorsAt(i)[j].recipe_id =
                    (IF "id" \in DOMAIN batch[i].v THEN batch[i].v["id"]
                     ELSE Str(<<"?">>))
               /\ ErrorsAt(i)[j].recipe_title =
                    (IF "title" \in DOMAIN batch[i].v THEN batch[i].v["title"]
                     ELSE Str(<<"<no title>">>))

(* -------------------------- the normalizer alone ----------------------- *)
\* the normalizer is applied to its own output up to this many times
MaxApply == 2

\* a key the mapping does not have
Absent == [t |-> "absent", v |-> ""]
Opt(d, key, val) == IF val = Absent THEN Pop(d, key) ELSE Put(d, key, val)

\* the candidate recipes handed to the normalizer: current and legacy
\* instructions, with and without the obsolete and the optional keys, and
\* timestamps that are absent, ISO text, other text or no text at all
Mappings ==
  {Opt(Opt(Opt(Opt(Opt(Opt(ItemA, "instructions", ins), "difficulty", dif),
                   "cuisine", cui), "tags", tag), "created_at", cre),
       "updated_at", upd) :
     ins \in {Absent, List(<<Text("s")>>), Str(<<"m", "\n", "\n", " ", "b">>),
              Str(<<" ">>), Num(1)},
     dif \in {Absent, Text("e")},
     cui \in {Absent, Text("c")},
     tag \in {Absent, List(<<Text("g")>>)},
     cre \in {Absent, Str(<<"2024-05-01T12:00:00">>), Str(<<"n", "o">>), Num(1)},
     upd \in {Absent, Str(<<"2024-05-01T12:00:00">>), Str(<<"n", "o">>)}}

\* the same call with line 16 writing the caller's mapping instead of a copy
migrate_call_InPlace(recipe_dict) ==
  IF MigrateRaises(recipe_dict)
  THEN [raised |-> "ValueError", ret |-> PyNone, arg |-> Dict(recipe_dict)]
  ELSE [raised |-> "", ret |-> Dict(migrate_legacy_recipe_format(recipe_dict)),
        arg |-> Dict(migrate_legacy_recipe_format(recipe_dict))]

\* one call migrate_legacy_recipe_format(recipe_dict): what it raised, what
\* it returned, and the caller's mapping after the call (line 16 copies the
\* mapping, every later statement writes the copy)
migrate_call(recipe_dict) ==
  IF MigrateRaises(recipe_dict)
  THEN [raised |-> "ValueError", ret |-> PyNone, arg |-> Dict(recipe_dict)]
  ELSE [raised |-> "", ret |-> Dict(migrate_legacy_recipe_format(recipe_dict)),
        arg |-> Dict(recipe_dict)]

InitNormalize ==
  /\ CacheIdle
  /\ StoreIdle
  /\ mapping \in Mappings
  /\ normalized = <<>>
  /\ RaceIdle
  /\ TransformIdle

\* the object the next call receives: the caller's mapping, then the value
\* the call before returned
NextArgument ==
  IF normalized = <<>> THEN mapping ELSE normalized[Len(normalized)].ret.v

\* normalize(x), then normalize of what it returned
Normalize ==
  /\ Len(normalized) < MaxApply
  /\ normalized # <<>> => normalized[Len(normalized)].raised = ""
  /\ \E o \in {migrate_call(NextArgument)} :
       /\ normalized' = Append(normalized, o)
       /\ mapping' = IF normalized = <<>> THEN o.arg.v ELSE mapping
  /\ UNCHANGED cacheVars
  /\ UNCHANGED storeVars
  /\ UNCHANGED raceVars
  /\ UNCHANGED transformVars

SpecNormalize == InitNormalize /\ [][Normalize]_vars

\* C12: the normalizer is total: on every mapping, one with a created_at or
\* updated_at string that is no ISO-8601 timestamp included, it returns a
\* mapping and does not raise.
C12_NormalizerTotal ==
  \A k \in 1..Len(normalized) :
     /\ normalized[k].raised = ""
     /\ normalized[k].ret.t = "dict"

\* C13: on every mapping x on which the normalizer returns, the call leaves
\* x as it was, and the normalizer applied to its own output returns that
\* output again: normalize(normalize(x)) = normalize(x).
C13_IdempotentPure ==
  [][normalized' # normalized =>
       LET k == Len(normalized')
           call == normalized'[k]
       IN  /\ call.raised = "" => call.arg.v = NextArgument
           /\ (k = 1 /\ call.raised = "") => mapping' = mapping
           /\ k > 1 => /\ call.raised = ""
                       /\ call.ret = normalized[k - 1].ret]_vars

\* a legacy mapping (instructions as text, a difficulty, no tags, an ISO
\* created_at string) was normalized twice; the first call changed it
C13_Witness ==
  /\ Len(normalized) = 2
  /\ "difficulty" \in DOMAIN mapping
  /\ "tags" \notin DOMAIN mapping
  /\ Get(mapping, "instructions").t = "str"
  /\ Get(mapping, "created_at").t = "str"
  /\ normalized[1].ret.v # mapping
  /\ normalized[1].ret.v["instructions"].t = "list"
  /\ normalized[1].ret.v["created_at"].t = "datetime"
  /\ normalized[2].ret = normalized[1].ret

(* -------------------- properties of a failing cache -------------------- *)
\* C15: RedisCacheBackend.is_available() does not raise, and answers False
\* whenever the server is unreachable at the time of the call, also when an
\* earlier call reached it.
C15_UnreachableIsUnavailable ==
  [][(CallOf("is_available") /\ cache_class = "RedisCacheBackend")
     => (/\ last'.raised = ""
         /\ ~up => last'.result = Bool(FALSE))]_vars

\* the same adapter call made with a cache whose is_available() is False
WithUnavailableCache(op, arg, net) ==
  IF op = "search_meals"
  THEN search_meals("NoOpCacheBackend", "None", "", FALSE, redis, arg, net)
  ELSE get_meal_by_id("NoOpCacheBackend", "None", "", FALSE, redis, arg, net)

\* how often the operation occurs among the events of a call
Count(events, e) == Len(SelectSeq(events, LAMBDA x : x = e))

\* C14: a search_meals or get_meal_by_id call made while the Redis backend
\* is unreachable returns the result, issues the HTTP requests and records
\* the cache hits and misses of the same call made with an unavailable
\* cache, and no exception of the cache reaches the caller.
C14_FailingCacheIsUnavailable ==
  [][((CallOf("search_meals") \/ CallOf("get_meal_by_id"))
      /\ cache_class = "RedisCacheBackend" /\ ~up)
     => \E net \in SearchResponses \cup LookupResponses :
          /\ net.kind = last'.net
          /\ ResponseShape(net) = last'.shape
          /\ \E u \in {WithUnavailableCache(last'.op, last'.arg, net)} :
               /\ last'.result = u.result
               /\ last'.raised = u.raised
               /\ Count(last'.events, "http_get") = Count(u.events, "http_get")
               /\ last'.metrics = Recorded(start_request_metrics, u)]_vars

(* ------------------ properties of one adapter execution ---------------- *)
\* the positions of the operation among the events of the last call
Places(e) == {i \in 1..Len(last.events) : last.events[i] = e}

\* C17: one execution of search_meals or get_meal_by_id issues at most one
\* HTTP request, one cache read and one cache write; the cache read comes
\* before the HTTP request and the cache write after it; an execution that
\* hits the cache issues no HTTP request and no cache write.
C17_OneRequestInOrder ==
  last.op \in {"search_meals", "get_meal_by_id"} =>
    /\ Cardinality(Places("http_get")) <= 1
    /\ Cardinality(Places("cache_get")) <= 1
    /\ Cardinality(Places("cache_set")) <= 1
    /\ \A i \in Places("cache_get"), j \in Places("http_get") : i < j
    /\ \A j \in Places("cache_set") : \E i \in Places("http_get") : i < j
    /\ last.metrics.cache_hits > 0 =>
         Places("http_get") = {} /\ Places("cache_set") = {}

\* a search answered from the cache: one read, no request, no write
C17_Witness ==
  /\ last.op = "search_meals"
  /\ last.metrics.cache_hits = 1
  /\ last.events = <<"is_available", "cache_get">>
  /\ last.result.v # <<>>

(* ---------------------- concurrent adapter calls ----------------------- *)
\* the route handlers run in a thread pool: this many calls of the adapter
\* are under way at once, on one adapter and one cache backend
MaxThreads == 2
Threads == 1..MaxThreads

\* spellings of one search key, of one meal key, and a blank argument
RaceArgs(op) ==
  IF op = "search_meals" THEN {<<"a">>, <<"A", " ">>} ELSE {<<"7">>, <<" ", "7">>}

\* the cache backends the calls can find: none, Redis disabled by its URL,
\* Redis not yet connected or connected, the server answering or not
RaceCaches ==
  {[class |-> "NoOpCacheBackend", url |-> "", client |-> "None", up |-> FALSE],
   [class |-> "RedisCacheBackend", url |-> "", client |-> "None", up |-> TRUE]}
  \cup {[class |-> "RedisCacheBackend", url |-> "redis://localhost:6379/0",
          client |-> c, up |-> u] : c \in {"None", "Redis"}, u \in BOOLEAN}

\* what an earlier request left under the key: nothing, or its entry
EarlierEntries(op) ==
  IF op = "search_meals" THEN {NoEntry, JsonDumps(List(<<>>))}
  ELSE {NoEntry, NONE_TEXT}

RaceKey(op, arg) == IF op = "search_meals" THEN SearchKey(arg) ELSE MealKey(arg)

Thread(arg) ==
  [pc |-> "start", arg |-> arg, result |-> PyNone, raised |-> "", events |-> <<>>]

InitRace ==
  /\ \E cache \in RaceCaches, op \in {"search_meals", "get_meal_by_id"} :
       /\ cache_class = cache.class
       /\ redis_url = cache.url
       /\ client = cache.client
       /\ up = cache.up
       /\ \E args \in [Threads -> RaceArgs(op)] \cup {[p \in Threads |-> <<" ">>]} :
            threads = [p \in Threads |-> Thread(args[p])]
       /\ \E entry \in EarlierEntries(op),
             reply \in (IF op = "search_meals" THEN SearchResponses
                        ELSE LookupResponses) :
            \E store \in {[k \in RedisKeys |->
                              IF k \in {RaceKey(op, arg) : arg \in RaceArgs(op)}
                              THEN entry ELSE NoEntry]} :
               /\ redis = store
               /\ api = [op |-> op, reply |-> reply, client0 |-> cache.client,
                         redis0 |-> store]
  /\ calls = 0
  /\ last = NoOp
  /\ firstMiss = [k \in SearchKeySet |-> NoMiss]
  /\ written = [k \in MealKeySet |-> Unwritten]
  /\ StoreIdle
  /\ NormIdle
  /\ TransformIdle

\* the cache read of the call (lines 134 / 205)
RaceRead(op, arg) ==
  IF op = "search_meals"
  THEN get_search(cache_class, client, redis_url, up, redis, arg)
  ELSE get_meal(cache_class, client, redis_url, up, redis, arg)

\* the call from its HTTP request to the value it is about to cache: this
\* part works on locals only
RaceRequest(op, arg, net) ==
  IF op = "search_meals"
  THEN search_after_cache("NoOpCacheBackend", "None", "", FALSE, redis, arg, net)
  ELSE lookup_after_cache("NoOpCacheBackend", "None", "", FALSE, redis, arg, net)

\* the cache write of the call (lines 186-189 / 249-268)
RaceWrite(op, arg, value) ==
  IF op = "search_meals"
  THEN set_search(cache_class, client, redis_url, up, redis, arg, value)
  ELSE set_meal(cache_class, client, redis_url, up, redis, arg, value)

\* everything but the threads, the cache client and the Redis key space
RaceFrame ==
  /\ UNCHANGED <<cache_class, redis_url, up, calls, last, firstMiss, written, api>>
  /\ UNCHANGED storeVars
  /\ UNCHANGED normVars
  /\ UNCHANGED transformVars

\* the blank guard, then self._cache.is_available()
CheckCache(p) ==
  /\ threads[p].pc = "start"
  /\ IF Blank(threads[p].arg)
     THEN /\ threads' = [threads EXCEPT
                           ![p].pc = "done",
                           ![p].result = IF api.op = "search_meals"
                                         THEN List(<<>>) ELSE PyNone]
          /\ client' = client
     ELSE \E a \in {is_available(cache_class, client, redis_url, up)} :
          /\ client' = a.client
          /\ threads' = [threads EXCEPT
                           ![p].pc = IF a.ret THEN "read" ELSE "request",
                           ![p].events = <<"is_available">>]
  /\ redis' = redis
  /\ RaceFrame

\* get_search / get_meal: a hit ends the call
ReadCache(p) ==
  /\ threads[p].pc = "read"
  /\ \E g \in {RaceRead(api.op, threads[p].arg)} :
       /\ client' = g.client
       /\ threads' = [threads EXCEPT
                        ![p].pc = IF g.ret.t # "null" THEN "done" ELSE "request",
                        ![p].result = IF g.ret = CACHED_NONE THEN PyNone ELSE g.ret,
                        ![p].events = Append(@, "cache_get")]
  /\ redis' = redis
  /\ RaceFrame

\* the HTTP request and what the call makes of the response
Request(p) ==
  /\ threads[p].pc = "request"
  /\ \E h \in {RaceRequest(api.op, threads[p].arg, api.reply)} :
       threads' = [threads EXCEPT
                     ![p].pc = IF Has(h.events, "cache_set") THEN "write" ELSE "done",
                     ![p].result = h.result,
                     ![p].raised = h.raised,
                     ![p].events = Append(@, "http_get")]
  /\ UNCHANGED <<client, redis>>
  /\ RaceFrame

\* set_search / set_meal, then return
WriteCache(p) ==
  /\ threads[p].pc = "write"
  /\ \E w \in {RaceWrite(api.op, threads[p].arg, threads[p].result)} :
       /\ client' = w.client
       /\ redis' = w.redis
  /\ threads' = [threads EXCEPT ![p].pc = "done", ![p].events = Append(@, "cache_set")]
  /\ RaceFrame

NextRace ==
  \E p \in Threads : CheckCache(p) \/ ReadCache(p) \/ Request(p) \/ WriteCache(p)

SpecRace == InitRace /\ [][NextRace]_vars

\* one call made alone, from the state the concurrent calls started in
Sequential(arg) ==
  IF api.op = "search_meals"
  THEN search_meals(cache_class, api.client0, redis_url, up, api.redis0, arg, api.reply)
  ELSE get_meal_by_id(cache_class, api.client0, redis_url, up, api.redis0, arg,
                      api.reply)

\* C16: when concurrent search_meals (or get_meal_by_id) calls for one
\* normalized key, all given the same response by the external API, have
\* ended in whatever order their steps were taken, they have ended the same
\* way with the same result, and the cache holds the entry that one call
\* made alone would have left.
C16_RaceIsHarmless ==
  (\A p \in Threads : threads[p].pc = "done") =>
     /\ \A p, q \in Threads :
          /\ threads[p].raised = threads[q].raised
          /\ threads[p].result = threads[q].result
     /\ \A p \in Threads : redis = Sequential(threads[p].arg).redis

\* both calls missed the cache, both asked the API and both wrote the entry,
\* under different spellings of the key
C16_Witness ==
  /\ api.op = "search_meals"
  /\ \A p \in Threads :
       /\ threads[p].pc = "done"
       /\ threads[p].events = <<"is_available", "cache_get", "http_get", "cache_set">>
       /\ threads[p].result.v # <<>>
       /\ redis[SearchKey(threads[p].arg)] = JsonDumps(threads[p].result)
  /\ threads[1].arg # threads[2].arg

(* ----------------- the recipe routes: API and HTML forms --------------- *)
\* bodies of PUT /api/recipes/{id}: two that RecipeUpdate accepts, one
\* without the tags it requires, one without ingredients
UpdateBodies ==
  {Pop(ItemA2, "id"), Pop(ItemB, "id"), Pop(Pop(ItemA2, "id"), "tags"),
   Pop(ItemBadIngredients, "id")}

\* PUT /api/recipes/{recipe_id}: 422 unless the body is a RecipeUpdate, 404
\* when update_recipe returns None
update_recipe(recipe_id, body, table) ==
  IF RecipeDataErrors(body, TRUE) # <<>>
  THEN [status |-> 422, recipes |-> table, valid |-> <<>>]
  ELSE With(storage_update_recipe(table, recipe_id, RecipeDataDump(body)), LAMBDA o :
         IF o.raised # "" THEN [status |-> 500, recipes |-> o.recipes, valid |-> <<>>]
         ELSE IF o.ret = PyNone
         THEN [status |-> 404, recipes |-> o.recipes, valid |-> <<>>]
         ELSE [status |-> 200, recipes |-> o.recipes, valid |-> <<o.ret>>])

\* str.startswith
StartsWith(s, prefix) ==
  Len(s) >= Len(prefix) /\ SubSeq(s, 1, Len(prefix)) = prefix

\* _recipe_to_response(recipe, "internal")
RecipeToResponse(recipe) ==
  Dict(Put(model_dump_json(recipe).v, "source", Str(<<"internal">>)))

\* the id the route hands to the external source: recipe_id, without its
\* leading "external-" if it starts with one
ExternalId(recipe_id) ==
  IF StartsWith(recipe_id, T_ExternalPrefix)
  THEN SubSeq(recipe_id, Len(T_ExternalPrefix) + 1, Len(recipe_id))
  ELSE recipe_id

\* the adapter call a route made: none, or get_meal_by_id(external_id)
NoLookup == NoOp
Lookup(external_id, o) ==
  [NoOp EXCEPT !.op = "get_meal_by_id", !.arg = external_id, !.result = o.result,
               !.raised = o.raised, !.events = o.events]

\* the route asking the external source before the store
get_recipe_ExternalFirst(recipe_id, table, net) ==
  With(get_meal_by_id(cache_class, client, redis_url, up, redis,
                      ExternalId(recipe_id), net), LAMBDA o :
    IF o.raised # ""
    THEN [status |-> 500, valid |-> <<>>, raised |-> o.raised,
          lookup |-> Lookup(ExternalId(recipe_id), o)]
    ELSE IF Truthy(o.result)
    THEN [status |-> 200, valid |-> <<o.result>>, raised |-> "",
          lookup |-> Lookup(ExternalId(recipe_id), o)]
    ELSE With(storage_get_recipe(table, recipe_id), LAMBDA recipe :
           IF recipe # PyNone
           THEN [status |-> 200, valid |-> <<RecipeToResponse(recipe)>>,
                 raised |-> "", lookup |-> Lookup(ExternalId(recipe_id), o)]
           ELSE [status |-> 404, valid |-> <<>>, raised |-> "",
                 lookup |-> Lookup(ExternalId(recipe_id), o)]))

\* GET /api/recipes/{recipe_id}: the stored recipe, else the external meal
\* under the id without its "external-" prefix, else 404; with the adapter
\* call it made
get_recipe(recipe_id, table, net) ==
  With(storage_get_recipe(table, recipe_id), LAMBDA recipe :
    IF recipe # PyNone
    THEN [status |-> 200, valid |-> <<RecipeToResponse(recipe)>>, raised |-> "",
          lookup |-> NoLookup]
    ELSE With(get_meal_by_id(cache_class, client, redis_url, up, redis,
                             ExternalId(recipe_id), net), LAMBDA o :
           IF o.raised # ""
           THEN [status |-> 500, valid |-> <<>>, raised |-> o.raised,
                 lookup |-> Lookup(ExternalId(recipe_id), o)]
           ELSE IF Truthy(o.result)
                THEN [status |-> 200, valid |-> <<o.result>>, raised |-> "",
                      lookup |-> Lookup(ExternalId(recipe_id), o)]
                ELSE [status |-> 404, valid |-> <<>>, raised |-> "",
                      lookup |-> Lookup(ExternalId(recipe_id), o)]))

\* what TheMealDB answers to the lookups of GET /api/recipes/{id}
GetReplies ==
  {Failed("TimeoutException"), Ok(MealsBody(PyNone)), Ok(List(<<>>)),
   Ok(MealsBody(List(<<Dict(GoodMeal)>>)))}

\* the external source has a meal to give in this response
HasMeal(net) == net.kind = "ok" /\ ResponseShape(net) = "meal"

\* the fields of the HTML recipe form
Forms ==
  [title : {<<"F">>, <<>>}, description : {<<"d">>},
   ingredients : {<<"a", "\n", " ", "b">>, <<" ">>},
   instructions : {<<"s">>, <<"\n">>}, tags : {<<"g", ",", " ">>},
   cuisine : {<<>>, <<" ", "c">>}]

\* [x.strip() for x in text.split(sep) if x.strip()]
FormList(text, sep) == List(TrimmedNonEmpty(SplitOn(text, sep, <<>>)))

\* the try block of create_recipe_form / update_recipe_form up to the
\* RecipeCreate / RecipeUpdate it builds: the exception raised, or the data
FormData(form) ==
  With([title |-> Str(form.title), description |-> Str(form.description),
        ingredients |-> FormList(form.ingredients, "\n"),
        instructions |-> FormList(form.instructions, "\n"),
        tags |-> FormList(form.tags, ","),
        cuisine |-> IF Strip(form.cuisine) = <<>> THEN PyNone
                    ELSE Str(Strip(form.cuisine))], LAMBDA data :
    IF Len(form.title) > MAX_TITLE_LENGTH \/ data.ingredients.v = <<>>
       \/ data.instructions.v = <<>>
    THEN [raised |-> "ValueError", data |-> data]
    ELSE IF RecipeDataErrors(data, TRUE) # <<>>
         THEN [raised |-> "ValidationError", data |-> data]
         ELSE [raised |-> "", data |-> data])

\* the frame of a request to a recipe route
RouteFrame ==
  /\ calls' = calls + 1
  /\ UNCHANGED <<cache_class, redis_url, client, up, redis, last, firstMiss, written>>
  /\ UNCHANGED normVars
  /\ UNCHANGED transformVars
  /\ UNCHANGED raceVars

\* PUT /api/recipes/{recipe_id}
UpdateRecipe ==
  /\ calls < MaxRequests
  /\ \E recipe_id \in DOMAIN recipes \cup {MissingId}, body \in UpdateBodies :
       \E o \in {update_recipe(recipe_id, body, recipes)} :
           /\ recipes' = o.recipes
           /\ batch' = <<Dict(body)>>
           /\ response' = [NoResponse EXCEPT !.op = "update_recipe",
                                             !.arg = recipe_id, !.status = o.status,
                                             !.valid = o.valid]
  /\ UNCHANGED <<uuids, created>>
  /\ RouteFrame

\* GET /api/recipes/{recipe_id}
GetRecipe ==
  /\ calls < MaxRequests
  /\ \E recipe_id \in DOMAIN recipes \cup created.gone
                       \cup {MissingId, T_ExternalPrefix \o <<"7">>,
                             T_ExternalPrefix \o T_ExternalPrefix \o <<"7">>},
        net \in GetReplies :
       \E o \in {get_recipe(recipe_id, recipes, net)} :
           /\ batch' = <<net>>
           /\ response' = [NoResponse EXCEPT !.op = "get_recipe", !.arg = recipe_id,
                                             !.status = o.status, !.valid = o.valid,
                                             !.raised = o.raised]
           /\ last' = o.lookup
  /\ calls' = calls + 1
  /\ UNCHANGED <<recipes, uuids, created>>
  /\ UNCHANGED <<cache_class, redis_url, client, up, redis, firstMiss, written>>
  /\ UNCHANGED normVars
  /\ UNCHANGED transformVars
  /\ UNCHANGED raceVars

\* POST /recipes/new: the form's recipe is created, or the exception of the
\* try block becomes a redirect with a message
CreateRecipeForm ==
  /\ calls < MaxRequests
  /\ \E form \in Forms :
       \E f \in {FormData(form)} :
         \E o \in {IF f.raised # ""
                   THEN [recipes |-> recipes, recipe |-> PyNone, uuids |-> uuids,
                         raised |-> f.raised]
                   ELSE storage_create_recipe(recipes, RecipeDataDump(f.data), uuids)} :
           /\ recipes' = o.recipes
           /\ uuids' = o.uuids
           /\ batch' = <<form>>
           /\ response' = [NoResponse EXCEPT
                             !.op = "create_recipe_form", !.status = 303,
                             !.valid = IF o.raised # "" THEN <<>> ELSE <<o.recipe>>,
                             !.errors = IF o.raised # "" THEN <<o.raised>> ELSE <<>>]
  /\ UNCHANGED created
  /\ RouteFrame

\* POST /recipes/{recipe_id}/edit
UpdateRecipeForm ==
  /\ calls < MaxRequests
  /\ \E recipe_id \in DOMAIN recipes \cup {MissingId}, form \in Forms :
       \E f \in {FormData(form)} :
         \E o \in {IF f.raised # ""
                   THEN [recipes |-> recipes, ret |-> PyNone, raised |-> f.raised]
                   ELSE storage_update_recipe(recipes, recipe_id,
                                              RecipeDataDump(f.data))} :
           /\ recipes' = o.recipes
           /\ batch' = <<form>>
           /\ response' = [NoResponse EXCEPT
                             !.op = "update_recipe_form", !.arg = recipe_id,
                             !.status = 303,
                             !.valid = IF o.ret = PyNone THEN <<>> ELSE <<o.ret>>,
                             !.errors = IF o.raised # "" THEN <<o.raised>> ELSE <<>>]
  /\ UNCHANGED <<uuids, created>>
  /\ RouteFrame

\* POST /recipes/{recipe_id}/delete
DeleteRecipeForm ==
  /\ calls < MaxRequests
  /\ \E recipe_id \in DOMAIN recipes \cup created.gone \cup {MissingId} :
       \E o \in {storage_delete_recipe(recipes, recipe_id)} :
           /\ recipes' = o.recipes
           /\ response' = [NoResponse EXCEPT !.op = "delete_recipe_form",
                                             !.arg = recipe_id, !.status = 303]
           /\ created' = [live |-> created.live \ {recipe_id},
                           gone |-> created.gone \cup (created.live \cap {recipe_id})]
  /\ UNCHANGED <<uuids, batch>>
  /\ RouteFrame

\* uploads for the import route among the other routes: an accepted batch,
\* one with a repeated id, one with a record the schema rejects, and the
\* bodies the route refuses
SampleUploads ==
  {Json(List(<<Dict(ItemA), Dict(ItemB)>>)), Json(List(<<Dict(ItemA), Dict(ItemA2)>>)),
   Json(List(<<Dict(ItemA), Dict(ItemBadIngredients)>>)), InvalidJson,
   TooLarge, Undecodable, Json(Dict(ItemA))}

ImportSamples == Import(SampleUploads, MaxRequests)

NextRoutes ==
  \/ CreateRecipe \/ UpdateRecipe \/ DeleteRecipe \/ GetRecipe
  \/ CreateRecipeForm \/ UpdateRecipeForm \/ DeleteRecipeForm
  \/ ImportSamples

SpecRoutes == InitStore /\ [][NextRoutes]_vars

(* -------------------- properties of the recipe routes ------------------ *)
\* C18: after any sequence of create, update, delete and import requests to
\* the API and the form routes, every stored recipe has a non-empty title
\* and description, at least one ingredient and one instruction, and is
\* stored under its own id, so that no two stored recipes share an id.
C18_StoredRecipesValid ==
  \A id \in DOMAIN recipes :
     \E recipe \in {RecipeFromRow(recipes[id])} :
        /\ recipe.id.v = id
        /\ recipe.title.t = "str" /\ Len(recipe.title.v) >= 1
        /\ recipe.description.t = "str" /\ Len(recipe.description.v) >= 1
        /\ recipe.ingredients.t = "list" /\ Len(recipe.ingredients.v) >= 1
        /\ recipe.instructions.t = "list" /\ Len(recipe.instructions.v) >= 1

\* the store holds an imported recipe and one made from the HTML form, and
\* the last request, a form without ingredients, was turned away
C18_Witness ==
  /\ Cardinality(DOMAIN recipes) = 2
  /\ <<"r", "1">> \in DOMAIN recipes
  /\ \E id \in DOMAIN recipes : recipes[id].title = Str(<<"F">>)
  /\ response.op = "update_recipe_form"
  /\ response.errors = <<"ValueError">>

\* the six fields an update request carries: the body of the API request, or
\* what the form route has parsed from the form
UpdateData ==
  IF response'.op = "update_recipe" THEN RecipeDataDump(batch'[1].v)
  ELSE RecipeDataDump(FormData(batch'[1]).data)

\* C19: an update or delete of an id that is not in the store reports not
\* found (update_recipe returns None, delete_recipe returns False, the API
\* answers 404 to a request whose body is a RecipeUpdate) and leaves the
\* store unchanged; a successful update replaces title, description,
\* ingredients, instructions, tags and cuisine in full, keeps the recipe's id
\* and created_at and leaves every other recipe unchanged.
C19_UpdateDeleteFrame ==
  [][/\ ( /\ response'.op \in {"update_recipe", "update_recipe_form",
                               "delete_recipe", "delete_recipe_form"}
          /\ response'.arg \notin DOMAIN recipes )
        => /\ recipes' = recipes
           /\ response'.op = "delete_recipe"
                => /\ response'.status = 404
                   /\ ~storage_delete_recipe(recipes, response'.arg).ret
           /\ response'.op = "delete_recipe_form"
                => ~storage_delete_recipe(recipes, response'.arg).ret
           /\ ( /\ response'.op = "update_recipe"
                /\ RecipeDataErrors(batch'[1].v, TRUE) = <<>> )
                => /\ response'.status = 404
                   /\ storage_update_recipe(recipes, response'.arg,
                                            UpdateData).ret = PyNone
           /\ ( /\ response'.op = "update_recipe_form"
                /\ FormData(batch'[1]).raised = "" )
                => /\ response'.valid = <<>>
                   /\ storage_update_recipe(recipes, response'.arg,
                                            UpdateData).ret = PyNone
     /\ ( \/ response'.op = "update_recipe" /\ response'.status = 200
          \/ response'.op = "update_recipe_form" /\ response'.valid # <<>> )
        => /\ response'.arg \in DOMAIN recipes
           /\ DOMAIN recipes' = DOMAIN recipes
           /\ \A other \in DOMAIN recipes \ {response'.arg} :
                 recipes'[other] = recipes[other]
           /\ \E old \in {recipes[response'.arg]},
                 new \in {RecipeFromRow(recipes'[response'.arg])} :
                 /\ new.id = old.id
                 /\ recipes'[response'.arg].created_at = old.created_at
                 /\ new.title = UpdateData.title
                 /\ new.description = UpdateData.description
                 /\ new.ingredients = UpdateData.ingredients
                 /\ new.instructions = UpdateData.instructions
                 /\ new.tags = UpdateData.tags
                 /\ new.cuisine = UpdateData.cuisine
    ]_vars

\* an imported recipe, created before now, has been updated through the API
\* next to another stored recipe
C19_Witness ==
  /\ response.op = "update_recipe"
  /\ response.status = 200
  /\ Cardinality(DOMAIN recipes) >= 2
  /\ response.arg \in DOMAIN recipes
  /\ recipes[response.arg].title = batch[1].v["title"]
  /\ recipes[response.arg].created_at # recipes[response.arg].updated_at

\* the last step was the request op
Answered(op) == response'.op = op /\ calls' = calls + 1

IsInfix(needle, hay) ==
  \E i \in 0..(Len(hay) - Len(needle)) : SubSeq(hay, i + 1, i + Len(needle)) = needle

\* RecipeStorage.get_all_recipes: the rows as the SELECT returns them
storage_get_all_recipes(rows) == [i \in 1..Len(rows) |-> RecipeFromRow(rows[i])]

\* RecipeStorage.search_recipes
storage_search_recipes(rows, query) ==
  IF query = <<>> THEN storage_get_all_recipes(rows)
  ELSE SelectSeq(storage_get_all_recipes(rows),
                 LAMBDA recipe : IsInfix(Lower(query), Lower(recipe.title.v)))

\* the list of _recipe_to_response(r, "internal")
InternalWithSource(found) == [i \in 1..Len(found) |-> RecipeToResponse(found[i])]

\* GET /api/recipes: with a search term the matching stored recipes and then
\* what the adapter's search returns; without one every stored recipe
get_recipes(search, rows, net) ==
  IF Truthy(search)
  THEN With(search_meals(cache_class, client, redis_url, up, redis, search.v, net),
            LAMBDA o :
         [status |-> IF o.raised # "" THEN 500 ELSE 200,
          valid |-> IF o.raised # "" THEN <<>>
                    ELSE InternalWithSource(storage_search_recipes(rows, search.v))
                           \o o.result.v,
          raised |-> o.raised, external |-> o])
  ELSE [status |-> 200, valid |-> InternalWithSource(storage_get_all_recipes(rows)),
        raised |-> "",
        external |-> [result |-> PyNone, raised |-> "", client |-> client,
                      redis |-> redis, events |-> <<>>, hits |-> 0, misses |-> 0]]

\* the search parameter: absent, empty, blank, the title of the sample
\* recipes in the other case, the title of the form's recipe, a letter of none
SearchTerms ==
  {PyNone, Str(<<>>), Str(<<" ">>), Str(<<"s">>), Str(<<"F">>), Str(<<"x">>)}

\* what TheMealDB answers to the search of GET /api/recipes
ListReplies ==
  {Failed("TimeoutException"), Ok(MealsBody(PyNone)), Ok(List(<<>>)),
   Ok(MealsBody(List(<<Dict(GoodMeal), Dict(EmptyMeal)>>)))}

\* the orders in which a SELECT without ORDER BY may return the rows
RowOrders(table) ==
  {order \in [1..Cardinality(DOMAIN table) -> DOMAIN table] :
     \A i, j \in DOMAIN order : order[i] = order[j] => i = j}

\* GET /api/recipes?search=...
GetRecipes ==
  /\ calls < MaxRequests
  /\ \E search \in SearchTerms, net \in ListReplies, order \in RowOrders(recipes) :
       \E o \in {get_recipes(search, [i \in DOMAIN order |-> recipes[order[i]]], net)} :
           /\ batch' = <<net>>
           /\ response' = [NoResponse EXCEPT !.op = "get_recipes", !.arg = search,
                                             !.status = o.status, !.valid = o.valid,
                                             !.raised = o.raised]
           /\ client' = o.external.client
           /\ redis' = o.external.redis
           /\ last' = [NoOp EXCEPT !.op = "search_meals",
                                   !.result = o.external.result,
                                   !.raised = o.external.raised,
                                   !.events = o.external.events]
  /\ calls' = calls + 1
  /\ UNCHANGED <<recipes, uuids, created>>
  /\ UNCHANGED <<cache_class, redis_url, up, firstMiss, written>>
  /\ UNCHANGED normVars
  /\ UNCHANGED transformVars
  /\ UNCHANGED raceVars

NextQuery ==
  \/ CreateRecipe \/ CreateRecipeForm \/ DeleteRecipe \/ ImportSamples
  \/ GetRecipes

SpecQuery == InitStore /\ [][NextQuery]_vars

\* the stored recipes whose title contains the term, whatever the case, as
\* the route presents them
Matching(term) ==
  {RecipeToResponse(RecipeFromRow(recipes[id])) :
     id \in {i \in DOMAIN recipes :
               IsInfix(Lower(term), Lower(recipes[i].title.v))}}

\* the sequence lists every element of the set once
Enumerates(seq, set) ==
  /\ Len(seq) = Cardinality(set)
  /\ {seq[i] : i \in DOMAIN seq} = set

\* C21: GET /api/recipes with a non-empty search term answers with the stored
\* recipes whose title contains the term case-insensitively, each with source
\* internal, followed by the external results in the order the external
\* source returned them; without a term it answers with the stored recipes
\* only and makes no external call; the store is not modified either way.
C21_ListMergesSources ==
  [][Answered("get_recipes") =>
       /\ recipes' = recipes
       /\ response'.status = 200
       /\ Truthy(response'.arg) =>
            \E n \in 0..Len(response'.valid) :
               /\ Enumerates(SubSeq(response'.valid, 1, n), Matching(response'.arg.v))
               /\ last'.result.t = "list"
               /\ SubSeq(response'.valid, n + 1, Len(response'.valid)) = last'.result.v
       /\ ~Truthy(response'.arg) =>
            /\ Enumerates(response'.valid, Matching(<<>>))
            /\ last'.events = <<>>
    ]_vars

(* --------------------------- the detail route -------------------------- *)
\* C22: GET /api/recipes/{id} asks the store first: a stored recipe with that
\* id is returned with source internal and no external lookup is made;
\* otherwise the external source is looked up with the id less one leading
\* "external-" and its record is returned; when neither has the id the
\* answer is 404.
C22_InternalThenExternal ==
  [][Answered("get_recipe") =>
       /\ response'.arg \in DOMAIN recipes
            => /\ response'.status = 200
               /\ response'.valid
                    = <<RecipeToResponse(RecipeFromRow(recipes[response'.arg]))>>
               /\ response'.valid[1].v["source"] = Str(<<"internal">>)
               /\ last' = NoLookup
       /\ response'.arg \notin DOMAIN recipes
            => /\ last'.op = "get_meal_by_id"
               /\ last'.arg
                    = IF StartsWith(response'.arg, T_ExternalPrefix)
                      THEN SubSeq(response'.arg, Len(T_ExternalPrefix) + 1,
                                  Len(response'.arg))
                      ELSE response'.arg
               /\ HasMeal(batch'[1])
                    => /\ response'.status = 200
                       /\ response'.valid
                            = <<transform_meal_to_recipe(
                                  batch'[1].body.v["meals"].v[1].v)>>
               /\ ~HasMeal(batch'[1]) => response'.status = 404
    ]_vars

(* --------------------------- the import route -------------------------- *)
\* C23: a request to POST /api/recipes/import whose body is larger than 1MB,
\* is not valid JSON, or has a root that is not an array is answered 400
\* before the validator is invoked, and leaves the recipe store unchanged.
C23_ImportRefused ==
  [][( /\ Answered("import_recipes")
       /\ \/ response'.arg.kind \in {"too_large", "invalid_json", "undecodable"}
          \/ response'.arg.kind = "json" /\ response'.arg.root.t # "list" )
       => /\ response'.status = 400
          /\ response'.errors = <<>>
          /\ uuids' = uuids
          /\ recipes' = recipes
    ]_vars

(* -------------------------- the transform alone ------------------------ *)
\* raw meals that differ in their ingredient pairs: names and measures that
\* are missing, null, empty, blank, padded text or a number, in the first
\* pairs, in the last pair and under a key past the last pair
IngredientMeals ==
  {Opt(Opt(Opt(Opt(Opt(Opt(GoodMeal, "strIngredient1", i1), "strMeasure1", m1),
                   "strIngredient2", i2), "strMeasure2", m2),
           "strIngredient20", i20), "strIngredient21", i21) :
     i1 \in {Absent, PyNone, Str(<<>>), Str(<<" ">>), Str(<<" ", "e", " ">>), Num(5)},
     m1 \in {Absent, PyNone, Str(<<" ">>), Str(<<" ", "2", " ">>)},
     i2 \in {Absent, Str(<<"b">>)},
     m2 \in {Absent, Str(<<"1">>)},
     i20 \in {Absent, Str(<<"z">>)},
     i21 \in {Absent, Str(<<"q">>)}}

\* a raw meal with a name under every ingredient key and under the key past
\* the last one
FullMeal ==
  [k \in {IngredientKeys[i] : i \in DOMAIN IngredientKeys} \cup {"strIngredient21"}
     |-> Str(<<"x">>)]

\* raw meals that differ in their instructions and their area
InstructionMeals ==
  {Opt(Opt(GoodMeal, "strInstructions", ins), "strArea", area) :
     ins \in {Absent, PyNone, Str(<<>>), Str(<<" ">>), Str(<<"\n">>), Str(<<"1", ".">>),
              Str(<<"1", ".", " ", "M", "i", "x", "\r", "\n", "B", "a", "k", "e">>),
              Str(<<"2", ")", "a", "\n", "\n", " ", "b", " ", "\n", "1", "2", "c">>),
              Str(<<"a", "\r", "b">>), Num(5)},
     area \in {Absent, PyNone, Str(<<>>), Str(<<" ">>), Str(<<"U", "K">>),
               Str(<<" ", "U", "K">>)}}

Meals == IngredientMeals \cup InstructionMeals \cup {FullMeal, EmptyMeal}

\* one call transform_meal_to_recipe(meal): what it raised or returned
transform_call(meal) ==
  IF TransformRaises(meal) THEN [raised |-> "AttributeError", ret |-> PyNone]
  ELSE [raised |-> "", ret |-> transform_meal_to_recipe(meal)]

InitTransform ==
  /\ CacheIdle
  /\ StoreIdle
  /\ NormIdle
  /\ RaceIdle
  /\ fetched \in Meals
  /\ adapted = <<>>

\* transform_meal_to_recipe(fetched)
Transform ==
  /\ adapted = <<>>
  /\ adapted' = <<transform_call(fetched)>>
  /\ UNCHANGED fetched
  /\ UNCHANGED cacheVars
  /\ UNCHANGED storeVars
  /\ UNCHANGED normVars
  /\ UNCHANGED raceVars

SpecTransform == InitTransform /\ [][Transform]_vars

\* the transform has returned a record
Returned == adapted # <<>> /\ adapted[1].raised = ""

\* the text of a raw field: none for a missing or null field
FieldText(key) ==
  IF Get(fetched, key) = PyNone THEN <<>> ELSE PyStr(Get(fetched, key))

NonBlank(key) == Strip(FieldText(key)) # <<>>

\* the pairs whose ingredient name is not blank
Named == {i \in DOMAIN IngredientKeys : NonBlank(IngredientKeys[i])}

\* C24: the ingredients list is built from the pairs strIngredient1..20 /
\* strMeasure1..20 in increasing index order: a pair gives one entry exactly
\* when its ingredient name is non-blank, the entry being the measure, a
\* space and the name, trimmed, when the measure is non-blank, and the
\* trimmed name otherwise; blank pairs are skipped without ending the scan,
\* so the list has at most 20 entries and is [] when no ingredient field is
\* present.
C24_IngredientsInOrder ==
  Returned =>
    \E list \in {adapted[1].ret.v["ingredients"].v} :
       /\ Len(list) = Cardinality(Named)
       /\ Len(list) <= 20
       /\ \A i \in Named :
            \E k \in {1 + Cardinality({j \in Named : j < i})} :
               list[k] = Str(IF NonBlank(MeasureKeys[i])
                             THEN Strip(Strip(FieldText(MeasureKeys[i])) \o <<" ">>
                                        \o FieldText(IngredientKeys[i]))
                             ELSE Strip(FieldText(IngredientKeys[i])))
       /\ (\A i \in DOMAIN IngredientKeys : IngredientKeys[i] \notin DOMAIN fetched)
            => list = <<>>

\* the first pair is blank, the second and the last have names, and there is
\* a name under strIngredient21
C24_Witness ==
  /\ Returned
  /\ Named = {2, 20}
  /\ "strIngredient1" \in DOMAIN fetched
  /\ "strIngredient21" \in DOMAIN fetched
  /\ Len(adapted[1].ret.v["ingredients"].v) = 2

\* a line without its leading enumeration marker: digits, then "." or ")",
\* then any whitespace
Unmarked(line) ==
  IF \E n \in 1..(Len(line) - 1) :
        /\ \A j \in 1..n : IsDigit(line[j])
        /\ line[n + 1] \in {".", ")"}
  THEN LStrip(SubSeq(line,
                     2 + CHOOSE n \in 1..(Len(line) - 1) :
                           /\ \A j \in 1..n : IsDigit(line[j])
                           /\ line[n + 1] \in {".", ")"},
                     Len(line)))
  ELSE line

\* the lines of the raw instructions, each trimmed and without its marker
CleanedLines ==
  With(SplitOn(ReplaceCRLF(FieldText("strInstructions")), "\n", <<>>), LAMBDA lines :
    [i \in DOMAIN lines |-> Str(Unmarked(Strip(lines[i])))])

\* C25: the instructions list is never empty: for absent or empty raw
\* instructions it is exactly ['No instructions provided.']; otherwise it is
\* the raw text split on newlines (\r\n counting as \n), each line trimmed
\* and without its leading enumeration marker, the empty lines dropped, in
\* the original order; when no step is left it is the raw text as the one
\* element.
C25_InstructionsNeverEmpty ==
  Returned =>
    \E list \in {adapted[1].ret.v["instructions"].v} :
       /\ Len(list) >= 1
       /\ FieldText("strInstructions") = <<>>
            => list = <<Str(T_NoInstructions)>>
       /\ FieldText("strInstructions") # <<>>
            => \E steps \in {SelectSeq(CleanedLines, LAMBDA line : line.v # <<>>)} :
                  list = IF steps # <<>> THEN steps
                         ELSE <<Str(FieldText("strInstructions"))>>

\* three steps, left of four lines with markers, padding and an empty line
C25_Witness ==
  /\ Returned
  /\ Len(CleanedLines) = 4
  /\ adapted[1].ret.v["instructions"].v = <<Str(<<"a">>), Str(<<"b">>),
                                            Str(<<"1", "2", "c">>)>>

\* C26: in the transformed record cuisine is the raw strArea value when that
\* value is non-blank, and None when strArea is missing, null, empty or
\* whitespace-only.
C26_CuisineOrNone ==
  Returned =>
    adapted[1].ret.v["cuisine"]
      = IF NonBlank("strArea") THEN fetched["strArea"] ELSE PyNone

(* ---------------------- failed requests and the cache ------------------ *)
\* the cache key of the adapter call that has just returned
KeyOf(call) ==
  IF call.op = "search_meals" THEN SearchKey(call.arg) ELSE MealKey(call.arg)

\* C27: a failed network step is never cached: when the HTTP request of
\* search_meals or get_meal_by_id ends in a timeout, a connection error, a
\* non-2xx status or a JSON parse failure, no cache entry is written or
\* changed, and a call for a key that has no entry issues the network
\* request, so that the call after a failed one asks the network again
\* instead of returning a cached empty list or "confirmed absent" sentinel.
C27_FailureNotCached ==
  [][(last = NoOp /\ last'.op \in {"search_meals", "get_meal_by_id"}) =>
       /\ (last'.net \in NetFailures /\ Has(last'.events, "http_get"))
            => /\ redis' = redis
               /\ ~Has(last'.events, "cache_set")
               /\ last'.raised = ""
               /\ last'.result = IF last'.op = "search_meals" THEN List(<<>>)
                                  ELSE PyNone
       /\ (~Blank(last'.arg) /\ redis[KeyOf(last')] = NoEntry)
            => Has(last'.events, "http_get")
    ]_vars

\* the second call of a run has read the reachable cache, found nothing and
\* seen its request fail; the key still has no entry
C27_Witness ==
  /\ calls = 2
  /\ last.op \in {"search_meals", "get_meal_by_id"}
  /\ last.net \in NetFailures
  /\ last.events = <<"is_available", "cache_get", "http_get">>
  /\ redis[KeyOf(last)] = NoEntry

(* ----------------------- the lazy singletons --------------------------- *)
\* the providers of app.core.dependencies and the module global of each
Providers == {"get_recipe_storage", "get_cache_backend", "get_external_recipe_source"}

\* a request thread about to call the provider fn: its position, the
\* function it is in, whether that is the call made by
\* get_external_recipe_source, the object it has constructed, the cache
\* backend the inner call returned and the object the provider returned
\* (objects are numbered from 1 in the order of construction, 0 is None)
Caller(fn) ==
  [pc |-> "test", provider |-> fn, fn |-> fn, inner |-> FALSE, new |-> 0,
   cache |-> 0, got |-> 0]

\* the process after import: the three globals are None, no object exists
InitSingleton ==
  /\ CacheIdle
  /\ StoreIdle
  /\ NormIdle
  /\ TransformIdle
  /\ threads \in [Threads -> {Caller(fn) : fn \in Providers}]
  /\ api = [globals |-> [fn \in Providers |-> 0], made |-> 0,
            tables |-> <<>>]

SingletonFrame ==
  /\ UNCHANGED cacheVars
  /\ UNCHANGED storeVars
  /\ UNCHANGED normVars
  /\ UNCHANGED transformVars

\* `if _x is None:`; in get_external_recipe_source the constructor's
\* argument get_cache_backend() is evaluated first
TestGlobal(p) ==
  /\ threads[p].pc = "test"
  /\ threads' =
       IF api.globals[threads[p].fn] # 0
       THEN [threads EXCEPT ![p].pc = "return"]
       ELSE IF threads[p].fn = "get_external_recipe_source"
       THEN [threads EXCEPT ![p].fn = "get_cache_backend", ![p].inner = TRUE]
       ELSE [threads EXCEPT ![p].pc = "construct"]
  /\ UNCHANGED api
  /\ SingletonFrame

\* RecipeStorage() / RedisCacheBackend() / TheMealDBAdapter(cache=...): a new
\* object; a new RecipeStorage has its own empty in-memory database (tables
\* keeps, per object, the callers whose recipe it holds)
Construct(p) ==
  /\ threads[p].pc = "construct"
  /\ threads' = [threads EXCEPT ![p].pc = "assign", ![p].new = api.made + 1]
  /\ api' = [api EXCEPT !.made = @ + 1, !.tables = Append(@, {})]
  /\ SingletonFrame

\* `_x = <the new object>`
AssignGlobal(p) ==
  /\ threads[p].pc = "assign"
  /\ threads' = [threads EXCEPT ![p].pc = "return"]
  /\ api' = [api EXCEPT !.globals[threads[p].fn] = threads[p].new]
  /\ SingletonFrame

\* `return _x`: the global is read again; the inner call hands its value to
\* the constructor of the adapter, the outer call to the route
ReturnGlobal(p) ==
  /\ threads[p].pc = "return"
  /\ threads' =
       IF threads[p].inner
       THEN [threads EXCEPT ![p].cache = api.globals[threads[p].fn],
                            ![p].fn = "get_external_recipe_source",
                            ![p].inner = FALSE, ![p].pc = "construct"]
       ELSE [threads EXCEPT ![p].got = api.globals[threads[p].fn],
                            ![p].pc = IF threads[p].fn = "get_recipe_storage"
                                      THEN "write" ELSE "done"]
  /\ UNCHANGED api
  /\ SingletonFrame

\* the route creates a recipe through the storage it was given
WriteThrough(p) ==
  /\ threads[p].pc = "write"
  /\ threads' = [threads EXCEPT ![p].pc = "done"]
  /\ api' = [api EXCEPT !.tables[threads[p].got] = @ \cup {p}]
  /\ SingletonFrame

NextSingleton ==
  \E p \in Threads :
     \/ TestGlobal(p) \/ Construct(p) \/ AssignGlobal(p) \/ ReturnGlobal(p)
     \/ WriteThrough(p)

SpecSingleton == InitSingleton /\ [][NextSingleton]_vars

\* C28: every caller of get_recipe_storage is given one and the same
\* RecipeStorage, also when the first calls run concurrently in several
\* request threads: no interleaving of the lazy initialisation makes two
\* instances, so a recipe written through the storage one caller was given
\* is visible through the storage any other caller was given; the same for
\* get_cache_backend and get_external_recipe_source.
C28_OneInstance ==
  \A p, q \in Threads :
     ( /\ threads[p].provider = threads[q].provider
       /\ threads[p].got # 0 /\ threads[q].got # 0 )
       => /\ threads[p].got = threads[q].got
          /\ threads[p].pc = "done" /\ threads[p].provider = "get_recipe_storage"
               => p \in api.tables[threads[q].got]

(* -------------------- concurrent writes to one recipe ------------------ *)
\* the recipe the calls race for
RacedId == ItemA.id.v

\* the calls one request thread makes on the shared RecipeStorage
StoreCall(op, data) ==
  [pc |-> op, op |-> op, data |-> data, existing |-> PyNone,
   recipe |-> PyNone, rowcount |-> 0, ret |-> PyNone, raised |-> ""]

StoreCalls ==
  {StoreCall("update_recipe", RecipeDataDump(body)) :
     body \in {Pop(ItemA2, "id"), Pop(ItemB, "id")}}
  \cup {StoreCall("delete_recipe", <<>>)}

\* the tables the calls start from: the raced recipe, alone or beside another
RacedTables ==
  {Put(<<>>, RacedId, RecipeToRow(Recipe(ItemA, 0))),
   Put(Put(<<>>, RacedId, RecipeToRow(Recipe(ItemA, 0))),
       ItemB.id.v, RecipeToRow(Recipe(ItemB, 0)))}

InitWrites ==
  /\ CacheIdle /\ NormIdle /\ TransformIdle
  /\ recipes \in RacedTables
  /\ uuids = 0
  /\ batch = <<>>
  /\ response = NoResponse
  /\ created = [live |-> {}, gone |-> {}]
  /\ threads \in [Threads -> StoreCalls]
  /\ api = <<>>

WritesFrame ==
  /\ UNCHANGED cacheVars
  /\ UNCHANGED <<uuids, batch, response, created, api>>
  /\ UNCHANGED normVars
  /\ UNCHANGED transformVars

\* update_recipe, lines 146-148: existing = self.get_recipe(recipe_id), and
\* None is returned when there is no such row
ReadExisting(p) ==
  /\ threads[p].pc = "update_recipe"
  /\ \E existing \in {storage_get_recipe(recipes, RacedId)} :
       threads' = [threads EXCEPT
                     ![p].existing = existing,
                     ![p].pc = IF existing = PyNone THEN "done" ELSE "execute"]
  /\ UNCHANGED recipes
  /\ WritesFrame

\* update_recipe, lines 149-153: the recipe that was read, with the six
\* fields of the update and a new updated_at
MergedRecipe(existing, recipe_data) ==
  [existing EXCEPT !.title = recipe_data["title"],
                   !.description = recipe_data["description"],
                   !.ingredients = recipe_data["ingredients"],
                   !.instructions = recipe_data["instructions"],
                   !.tags = recipe_data["tags"],
                   !.cuisine = recipe_data["cuisine"],
                   !.updated_at = DateTime(NowText)]

\* the UPDATE statement of lines 154-167: seven columns of the row WHERE
\* id = recipe_id, no row when there is none
UpdateStatement(table, recipe_id, recipe) ==
  IF recipe_id \notin DOMAIN table THEN [recipes |-> table, rowcount |-> 0]
  ELSE [recipes |-> [table EXCEPT ![recipe_id] =
                       [@ EXCEPT !.title = recipe.title,
                                 !.description = recipe.description,
                                 !.ingredients = JsonDumps(recipe.ingredients),
                                 !.instructions = JsonDumps(recipe.instructions),
                                 !.tags = JsonDumps(recipe.tags),
                                 !.cuisine = recipe.cuisine,
                                 !.updated_at = isoformat(recipe.updated_at)]],
        rowcount |-> 1]

\* update_recipe, lines 149-167: Recipe(**recipe_dict), then the UPDATE
ExecuteUpdate(p) ==
  /\ threads[p].pc = "execute"
  /\ IF RecipeErrors(threads[p].data) # <<>>
     THEN /\ threads' = [threads EXCEPT ![p].raised = "ValidationError",
                                        ![p].pc = "done"]
          /\ UNCHANGED recipes
     ELSE \E recipe \in {MergedRecipe(threads[p].existing, threads[p].data)} :
            \E o \in {UpdateStatement(recipes, RacedId, recipe)} :
               /\ recipes' = o.recipes
               /\ threads' = [threads EXCEPT ![p].recipe = recipe,
                                             ![p].rowcount = o.rowcount,
                                             ![p].pc = "commit"]
  /\ WritesFrame

\* update_recipe, lines 168-169: commit and return the recipe; the result of
\* the statement is not looked at
ReturnRecipe(p) ==
  /\ threads[p].pc = "commit"
  /\ threads[p].op = "update_recipe"
  /\ threads' = [threads EXCEPT ![p].ret = threads[p].recipe, ![p].pc = "done"]
  /\ UNCHANGED recipes
  /\ WritesFrame

\* delete_recipe, line 172: the DELETE statement
ExecuteDelete(p) ==
  /\ threads[p].pc = "delete_recipe"
  /\ \E o \in {storage_delete_recipe(recipes, RacedId)} :
       /\ recipes' = o.recipes
       /\ threads' = [threads EXCEPT ![p].rowcount = IF o.ret THEN 1 ELSE 0,
                                     ![p].pc = "commit"]
  /\ WritesFrame

\* delete_recipe, lines 173-174: commit and return cur.rowcount > 0
ReturnDeleted(p) ==
  /\ threads[p].pc = "commit"
  /\ threads[p].op = "delete_recipe"
  /\ threads' = [threads EXCEPT ![p].ret = Bool(threads[p].rowcount > 0),
                                ![p].pc = "done"]
  /\ UNCHANGED recipes
  /\ WritesFrame

NextWrites ==
  \E p \in Threads :
     \/ ReadExisting(p) \/ ExecuteUpdate(p) \/ ReturnRecipe(p)
     \/ ExecuteDelete(p) \/ ReturnDeleted(p)

SpecWrites == InitWrites /\ [][NextWrites]_vars

\* the six fields of an update as the row of the raced recipe holds them
RowHolds(table, data) ==
  /\ RacedId \in DOMAIN table
  /\ RecipeDataDump(model_dump_json(RecipeFromRow(table[RacedId])).v) = data

\* C29: under every interleaving of update_recipe(id, data) with a
\* concurrent delete_recipe(id) or update_recipe(id, data2) on one store, an
\* update that returns a recipe has written it: when its UPDATE statement
\* completes the store holds the returned contents for id, an update whose
\* statement modified no row does not return a recipe, and once every call
\* has returned a stored record for id holds the six fields of one single
\* update (or, if no update wrote, the fields it started with).
C29_UpdateWrites ==
  [][\A p \in Threads :
       /\ ( threads[p].pc = "execute" /\ threads'[p].pc = "commit" )
            => /\ RacedId \in DOMAIN recipes'
               /\ RecipeFromRow(recipes'[RacedId]) = threads'[p].recipe
       /\ ( /\ threads'[p].pc = "done"
            /\ threads'[p].op = "update_recipe"
            /\ threads'[p].ret # PyNone )
            => threads'[p].rowcount > 0
       /\ ( /\ \A q \in Threads : threads'[q].pc = "done"
            /\ RacedId \in DOMAIN recipes' )
            => \/ \E q \in Threads : /\ threads'[q].ret # PyNone
                                     /\ threads'[q].op = "update_recipe"
                                     /\ RowHolds(recipes', threads'[q].data)
               \/ /\ \A q \in Threads : threads'[q].rowcount = 0
                  /\ RowHolds(recipes', RecipeDataDump(ItemA))
    ]_vars

(* ------------------------------- startup ------------------------------- *)
\* sample-recipes.json: absent, not JSON, or an array of recipes
Missing == [kind |-> "missing", root |-> PyNone]
SampleFiles ==
  {Missing, InvalidJson, Json(List(<<>>)), Json(List(<<Dict(ItemA)>>)),
   Json(List(<<Dict(ItemA), Dict(ItemB)>>)),
   Json(List(<<Dict(ItemLegacy), Dict(ItemBadIngredients)>>))}

\* the process before startup: `recipe_storage`, the instance the module
\* storage makes when it is imported, is empty; `recipes` is the table of
\* the instance get_recipe_storage hands to the routes
InitStartup ==
  /\ CacheIdle /\ StoreIdle /\ NormIdle /\ TransformIdle
  /\ threads = <<>>
  /\ api \in {[started |-> FALSE, file |-> file, recipe_storage |-> <<>>,
               printed |-> ""] : file \in SampleFiles}

\* lifespan: the sample file is loaded into recipe_storage; a missing file
\* and a failure are printed and the application starts all the same
Lifespan ==
  /\ ~api.started
  /\ IF api.file.kind = "missing"
     THEN /\ api' = [api EXCEPT !.started = TRUE, !.printed = "No sample data file"]
          /\ UNCHANGED uuids
     ELSE IF api.file.kind # "json"
     THEN /\ api' = [api EXCEPT !.started = TRUE, !.printed = "Failed to seed"]
          /\ UNCHANGED uuids
     ELSE \E o \in {storage_import_recipes(api.file.root.v, uuids)} :
            /\ api' = [api EXCEPT !.started = TRUE, !.printed = "Seeded",
                                  !.recipe_storage = o.recipes]
            /\ uuids' = o.uuids
  /\ UNCHANGED <<recipes, batch, response, created, threads>>
  /\ UNCHANGED cacheVars
  /\ UNCHANGED normVars
  /\ UNCHANGED transformVars

\* the requests the started application serves
ServeList == api.started /\ GetRecipes
ServeCreate == api.started /\ CreateRecipe

NextStartup == Lifespan \/ ServeList \/ ServeCreate

SpecStartup == InitStartup /\ [][NextStartup]_vars

\* C30: when the sample file exists and is valid at startup, the recipes the
\* lifespan hook seeds are in the store the routes read through
\* get_recipe_storage: the first request after startup, GET /api/recipes
\* without a search term, answers with every recipe import_recipes takes
\* from the file.
C30_SeededVisible ==
  [][( /\ Answered("get_recipes")
       /\ calls = 0
       /\ ~Truthy(response'.arg)
       /\ api.file.kind = "json" )
       => /\ response'.status = 200
          /\ \E o \in {storage_import_recipes(api.file.root.v, 0)} :
               Enumerates(response'.valid,
                          {RecipeToResponse(RecipeFromRow(o.recipes[id])) :
                             id \in DOMAIN o.recipes})
    ]_vars

====
